---- MODULE Spec2Model ----
(***************************************************************************)
(* Credential rotation and article-sync orchestration of the wewe-rss      *)
(* worker: the daily blocklist, credential selection, the upstream fetch   *)
(* with retry, single-feed / all-feeds / deep-history sync and the D1      *)
(* tables they write.                                                      *)
(*                                                                         *)
(* The worker is single-threaded and cooperative: code between two awaits  *)
(* runs atomically.  Every action below is one such stretch of code: it    *)
(* starts when the awaited I/O (a D1 statement, an upstream request, a     *)
(* sleep) completes and runs to the next await.  A D1 statement takes      *)
(* effect in the step that completes it.                                   *)
(***************************************************************************)
EXTENDS Integers, Sequences, FiniteSets, TLC

(***************************************************************************)
(* Bounds of the model.                                                    *)
(***************************************************************************)
NumProcs == 2      \* concurrent invocations (requests / scheduled events)
NumAccounts == 2   \* credential ids 1..NumAccounts
NumFeeds == 2      \* feed ids 1..NumFeeds
MaxTime == 1       \* the clock runs 0..MaxTime
TicksPerDay == 1   \* clock ticks in one calendar day (Asia/Shanghai)
MaxPage == 3       \* upstream serves full pages only below this page
MaxAdminOps == 1   \* administration requests in one run
MaxCalls == 3      \* calls of the sync procedures in one run
MaxDeepRuns == 1   \* deep-history runs in one run of SpecDeep
MaxCycles == 1     \* health-monitor cycles in one run
MaxRows == 3       \* rows of the store that SpecList walks
MaxArticleId == 2  \* article ids 1..MaxArticleId of the batches of SpecUpsert
MaxVersion == 1    \* their contents are versions 0..MaxVersion
MaxBatch == 2      \* articles in one such batch
MaxReauth == 1     \* re-authentication attempts under way together

(***************************************************************************)
(* Program constants.                                                      *)
(***************************************************************************)
INVALID == 0
ENABLE == 1
DISABLE == 2
defaultCount == 20
retryCountDefault == 3
historyLoopCap == 1000
accountsLimit == 10
maxAttempts == 60

Procs == 1..NumProcs
AccountIds == 1..NumAccounts
FeedIds == 1..NumFeeds
\* The empty string '' as an id (falsy in filter(Boolean) and in !id).
EmptyId == 0
Statuses == {INVALID, ENABLE, DISABLE}

NoAccount ==
  [exists |-> FALSE, status |-> INVALID, token |-> 0, name |-> 0, createdAt |-> 0]
NoFeed == [exists |-> FALSE, status |-> INVALID, syncTime |-> 0, hasHistory |-> 0]

VARIABLES
  now,                           \* Date.now(), in clock ticks
  accounts,                      \* table accounts: id -> row
  feeds,                         \* table feeds: id -> row
  articles,                      \* table articles: a set of rows
  blockedAccountsMap,            \* date -> array of credential ids
  inProgressHistoryMp,           \* [id, page]
  isRefreshAllMpArticlesRunning, \* the all-feeds flag
  task,                          \* each invocation's position and locals
  rateLimited,                   \* history: the ids with a rate-limit signal today
                                 \*   and no re-validation since
  lastUpsert,                    \* history: for each article id the last row upserted
  lastExit,                      \* history: the invocation that returned in the
                                 \*   last step, and its outcome
  adminLeft,                     \* administration requests still to come
  callsLeft,                     \* calls of the sync procedures still to come
  preempted                      \* history: the deep-history invocations whose
                                 \*   marker a call for another feed overwrote

vars == <<now, accounts, feeds, articles, blockedAccountsMap, inProgressHistoryMp,
          isRefreshAllMpArticlesRunning, task, rateLimited, lastUpsert,
          lastExit, adminLeft, callsLeft, preempted>>

(***************************************************************************)
(* Time and the daily blocklist.                                           *)
(***************************************************************************)
Days == 0..(MaxTime \div TicksPerDay)

\* dayjs.tz(new Date(), 'Asia/Shanghai').format('YYYY-MM-DD'): many clock
\* values share one date.
getTodayDate == now \div TicksPerDay

\* variant: the empty id is not tested for
BooleanAlways(id) == TRUE

Boolean(id) == id # EmptyId

\* blockedAccountsMap.get(today) || [], the map being m
BlockedToday(m) == m[getTodayDate]

getBlockedAccountIds(m) == SelectSeq(BlockedToday(m), Boolean)

ToSet(s) == {s[i] : i \in DOMAIN s}

\* variant: the first occurrence of id alone is taken out
removeBlockedAccountFirst(m, id) ==
  LET s == m[getTodayDate]
      at == {i \in DOMAIN s : s[i] = id}
      k == CHOOSE i \in at : \A j \in at : i <= j
  IN  IF at = {} THEN m
      ELSE [m EXCEPT ![getTodayDate] =
              [j \in 1..(Len(s) - 1) |-> IF j < k THEN s[j] ELSE s[j + 1]]]

\* blockedAccountsMap.set(today, blockedAccounts.filter((item) => item !== id))
removeBlockedAccount(m, id) ==
  [m EXCEPT ![getTodayDate] = SelectSeq(@, LAMBDA item : item # id)]

\* variant: the day's array is replaced by one holding the new id alone
pushBlockedAccountOverwriting(m, id) == [m EXCEPT ![getTodayDate] = <<id>>]

\* blockedAccounts.push(accountId); blockedAccountsMap.set(today, blockedAccounts)
pushBlockedAccount(m, id) == [m EXCEPT ![getTodayDate] = Append(@, id)]

(***************************************************************************)
(* D1 statements of db-queries.ts.                                         *)
(***************************************************************************)
Min(a, b) == IF a < b THEN a ELSE b

\* variant: the statement without its NOT IN clause
getAvailableAccountsIgnoringBlocked(rows, blockedIds) ==
  LET cand == {id \in DOMAIN rows : rows[id].exists /\ rows[id].status = ENABLE}
      n == Min(accountsLimit, Cardinality(cand))
  IN  {S \in SUBSET cand :
         /\ Cardinality(S) = n
         /\ \A a \in S : \A b \in cand \ S :
              rows[a].createdAt <= rows[b].createdAt}

\* SELECT ... WHERE status = 1 AND id NOT IN (blocked) ORDER BY created_at ASC
\* LIMIT 10: the possible result sets (rows of equal created_at come in any
\* order, so the row cut off by the LIMIT is not determined).
getAvailableAccounts(rows, blockedIds) ==
  LET cand == {id \in DOMAIN rows :
                 /\ rows[id].exists
                 /\ rows[id].status = ENABLE
                 /\ id \notin blockedIds}
      n == Min(accountsLimit, Cardinality(cand))
  IN  {S \in SUBSET cand :
         /\ Cardinality(S) = n
         /\ \A a \in S : \A b \in cand \ S :
              rows[a].createdAt <= rows[b].createdAt}

\* variant: the statement without status in its SET list
updateAccountTokenOnly(rows, id, data) ==
  IF id \in DOMAIN rows /\ rows[id].exists /\ "token" \in DOMAIN data
  THEN [rows EXCEPT ![id] = [@ EXCEPT !.token = data.token]]
  ELSE rows

\* UPDATE accounts SET ... WHERE id = ?: data is a record with any of the
\* fields token, name, status; a missing row is left missing.
updateAccount(rows, id, data) ==
  IF id \in DOMAIN rows /\ rows[id].exists
  THEN [rows EXCEPT ![id] =
          [@ EXCEPT
             !.token = IF "token" \in DOMAIN data THEN data.token ELSE @,
             !.name = IF "name" \in DOMAIN data THEN data.name ELSE @,
             !.status = IF "status" \in DOMAIN data THEN data.status ELSE @]]
  ELSE rows

\* INSERT ... ON CONFLICT(id) DO UPDATE SET token, name, status, updated_at
upsertAccount(rows, input) ==
  [rows EXCEPT ![input.id] =
     IF @.exists
     THEN [@ EXCEPT !.token = input.token, !.name = input.name,
                    !.status = input.status]
     ELSE [exists |-> TRUE, status |-> input.status, token |-> input.token,
           name |-> input.name, createdAt |-> now]]

deleteAccount(rows, id) == [rows EXCEPT ![id] = NoAccount]

getFeedById(rows, id) == IF id \in DOMAIN rows THEN rows[id] ELSE NoFeed

\* UPDATE feeds SET sync_time = ?, has_history = ?, updated_at = ? WHERE id = ?
updateFeed(rows, id, data) ==
  IF id \in DOMAIN rows /\ rows[id].exists
  THEN [rows EXCEPT ![id] =
          [@ EXCEPT
             !.syncTime = IF "syncTime" \in DOMAIN data THEN data.syncTime ELSE @,
             !.hasHistory =
               IF "hasHistory" \in DOMAIN data THEN data.hasHistory ELSE @]]
  ELSE rows

\* SELECT ... FROM feeds: the ids, in one of the orders the table may give.
listAllFeeds(rows) == {id \in FeedIds : rows[id].exists}

\* variant: the statement without its WHERE clause
listEnabledFeedsUnfiltered(rows) == {id \in FeedIds : rows[id].exists}

\* SELECT ... FROM feeds WHERE status = 1
listEnabledFeeds(rows) ==
  {id \in FeedIds : rows[id].exists /\ rows[id].status = ENABLE}

\* SELECT COUNT(*) FROM articles WHERE mp_id = ?
countArticlesByMpId(rows, mpId) ==
  Cardinality({r \in rows : r.mpId = mpId})

ArticleRow(mpId, article) ==
  [id |-> article.id, mpId |-> mpId, title |-> article.title,
   picUrl |-> article.picUrl, publishTime |-> article.publishTime]

\* variant: a plain INSERT into a table without the primary key
insertArticlePlain(rows, row) == rows \cup {row}

\* INSERT INTO articles ... ON CONFLICT(id) DO UPDATE SET title, pic_url,
\* publish_time, mp_id, updated_at (id is the PRIMARY KEY): the row of that
\* id, if there is one, gives way to the new one.
insertArticle(rows, row) == {r \in rows : r.id # row.id} \cup {row}

\* db.batch(statements): the statements run in the order of the array.
RECURSIVE upsertArticles(_, _, _)
upsertArticles(rows, mpId, arts) ==
  IF arts = <<>> THEN rows
  ELSE upsertArticles(insertArticle(rows, ArticleRow(mpId, Head(arts))),
                      mpId, Tail(arts))

(***************************************************************************)
(* The upstream platform.  A page of a feed is an array of at most         *)
(* defaultCount article summaries; the ids of a page are its own.          *)
(***************************************************************************)
ArtId(f, page, j) == ((f - 1) * (MaxPage + 2) + page) * defaultCount + j

PageArticles(f, page, k) ==
  [j \in 1..k |->
     [id |-> ArtId(f, page, j), title |-> 0, picUrl |-> 0,
      publishTime |-> 0]]

\* The lengths a page may have: empty, one short of full, full.
PageLens == {0, defaultCount - 1, defaultCount}

\* An upstream failure as fetchJson throws it: the HTTP status (0: no
\* response, a network error or a timeout) and the markers its message holds.
Unauthorized == [status |-> 401, message |-> {"WeReadError401"}]
RateLimited == [status |-> 429, message |-> {"WeReadError429"}]
ServerError == [status |-> 500, message |-> {}]
NoError == [status |-> 0, message |-> {}]
NoCredentialAvailable == [status |-> 0, message |-> {"NoAccount"}]

Errors == {Unauthorized, RateLimited, ServerError}

\* Responses whose body carries no message: fetchJson throws
\* "Request failed: <status>".  A request that got no response (network
\* error, abort by the timeout) throws the error of fetch.
Unmarked401 == [status |-> 401, message |-> {}]
Unmarked429 == [status |-> 429, message |-> {}]
NetworkError == [status |-> 0, message |-> {"AbortError"}]

AllErrors == Errors \cup {Unmarked401, Unmarked429, NetworkError}

\* The probed feed is not known upstream.
NotFound == [status |-> 404, message |-> {}]

\* variant: every message is taken to hold the marker
includesAlways(message, marker) == TRUE

\* message.includes(marker)
includes(message, marker) == marker \in message

(***************************************************************************)
(* Invocations.                                                            *)
(***************************************************************************)
IdleMarker == [id |-> EmptyId, page |-> 1]

IdleTask ==
  [op |-> "none", pc |-> "idle", err |-> NoError,
   mpId |-> EmptyId, page |-> 1, retry |-> 0, blocked |-> {}, seen |-> {},
   acct |-> 0, arts |-> <<>>, hasHistory |-> 0, syncTime |-> 0,
   queue |-> <<>>, i |-> 0, name |-> 0, vid |-> 0, token |-> 0, username |-> 0]

NoExit == [p |-> 0, op |-> "none", res |-> "none", err |-> NoError, value |-> {}]

\* A step of an invocation that was not at work is a call.
CallsAfter(p) == IF task[p].pc = "idle" THEN callsLeft - 1 ELSE callsLeft

\* The deep-history invocations other than p that are at work on a feed
\* other than mpId.
HistoryOfOthers(p, mpId) ==
  {q \in Procs \ {p} : task[q].op = "history" /\ task[q].mpId # mpId}

\* Invocation p goes on as t; nothing returned in this step.
Goes(p, t) ==
  /\ task' = [task EXCEPT ![p] = t]
  /\ lastExit' = NoExit
  /\ preempted' = IF t.pc = "getFeed"
                  THEN preempted \cup HistoryOfOthers(p, t.mpId)
                  ELSE preempted
  /\ callsLeft' = CallsAfter(p)
  /\ UNCHANGED adminLeft

\* Invocation p returns to its caller with outcome res (without running a
\* finally block); value holds the hasHistory of a returned {hasHistory}.
Returned(p, op, res, err, value) ==
  /\ task' = [task EXCEPT ![p] = IdleTask]
  /\ lastExit' = [p |-> p, op |-> op, res |-> res, err |-> err, value |-> value]
  /\ preempted' = preempted \ {p}
  /\ callsLeft' = CallsAfter(p)
  /\ UNCHANGED adminLeft

Returns(p, op, res, err) == Returned(p, op, res, err, {})

\* getMpArticles / getMpInfo up to the await in getAvailableAccount: the
\* blocklist (of the map m) is read and the query is sent.
BeginSelect(t, retry, m, rl) ==
  [t EXCEPT !.pc = "accounts", !.retry = retry,
            !.blocked = ToSet(getBlockedAccountIds(m)), !.seen = rl,
            !.acct = 0]

\* refreshMpArticlesAndUpdateFeed(env, mpId, page) up to its first await.
CallRefresh(t, mpId, page) ==
  BeginSelect([t EXCEPT !.mpId = mpId, !.page = page], retryCountDefault,
              blockedAccountsMap, rateLimited)

\* variant: the finally of the all-feeds sync leaves the flag as it is
ExitValueKeepingFlag(p, t, res, err, value) ==
  /\ Returned(p, t.op, res, err, value)
  /\ inProgressHistoryMp' =
       IF t.op = "history" THEN IdleMarker ELSE inProgressHistoryMp
  /\ UNCHANGED isRefreshAllMpArticlesRunning

\* variant: the finally of the deep-history sync leaves the marker as it is
ExitValueKeepingMarker(p, t, res, err, value) ==
  /\ Returned(p, t.op, res, err, value)
  /\ UNCHANGED inProgressHistoryMp
  /\ isRefreshAllMpArticlesRunning' =
       IF t.op = "all" THEN FALSE ELSE isRefreshAllMpArticlesRunning

\* The finally blocks of the invocation run and it ends with outcome res.
ExitValue(p, t, res, err, value) ==
  /\ Returned(p, t.op, res, err, value)
  /\ inProgressHistoryMp' =
       IF t.op = "history" THEN IdleMarker ELSE inProgressHistoryMp
  /\ isRefreshAllMpArticlesRunning' =
       IF t.op = "all" THEN FALSE ELSE isRefreshAllMpArticlesRunning

Exit(p, t, res, err) == ExitValue(p, t, res, err, {})

\* The for loop of refreshAllMpArticlesAndUpdateFeed at its next feed.
SweepLoop(p, t) ==
  IF t.queue = <<>>
  THEN Exit(p, t, "ok", NoError)
  ELSE /\ Goes(p, CallRefresh([t EXCEPT !.queue = Tail(@)], Head(t.queue), 1))
       /\ UNCHANGED <<inProgressHistoryMp, isRefreshAllMpArticlesRunning>>

\* The while loop of getHistoryMpArticles at the top of an iteration, the
\* marker being m.
HistoryLoop(p, t, m) ==
  IF t.i > 0 /\ m.id = t.mpId
  THEN /\ Goes(p, CallRefresh([t EXCEPT !.i = @ - 1], t.mpId, m.page))
       /\ inProgressHistoryMp' = m
       /\ UNCHANGED isRefreshAllMpArticlesRunning
  ELSE Exit(p, t, "ok", NoError)

\* variant: the deep-history loop goes on whatever hasHistory is
ReturnIgnoringHasHistory(p, t, hasHistory) ==
  CASE t.op \in {"all", "cron"} ->
         /\ Goes(p, [t EXCEPT !.pc = "sleep", !.arts = <<>>])
         /\ UNCHANGED <<inProgressHistoryMp, isRefreshAllMpArticlesRunning>>
    [] t.op = "once" ->
         /\ Goes(p, [t EXCEPT !.pc = "pause", !.arts = <<>>])
         /\ UNCHANGED <<inProgressHistoryMp, isRefreshAllMpArticlesRunning>>
    [] t.op = "history" ->
         /\ Goes(p, [t EXCEPT !.pc = "sleep", !.arts = <<>>])
         /\ inProgressHistoryMp' =
              [inProgressHistoryMp EXCEPT !.page = @ + 1]
         /\ UNCHANGED isRefreshAllMpArticlesRunning
    [] t.op = "refresh" -> ExitValue(p, t, "ok", NoError, {hasHistory})
    [] OTHER -> Exit(p, t, "ok", NoError)

\* refreshMpArticlesAndUpdateFeed returned {hasHistory} to its caller.
Return(p, t, hasHistory) ==
  CASE t.op \in {"all", "cron"} ->
         /\ Goes(p, [t EXCEPT !.pc = "sleep", !.arts = <<>>])
         /\ UNCHANGED <<inProgressHistoryMp, isRefreshAllMpArticlesRunning>>
    [] t.op = "once" ->
         /\ Goes(p, [t EXCEPT !.pc = "pause", !.arts = <<>>])
         /\ UNCHANGED <<inProgressHistoryMp, isRefreshAllMpArticlesRunning>>
    [] t.op = "history" /\ hasHistory >= 1 ->
         /\ Goes(p, [t EXCEPT !.pc = "sleep", !.arts = <<>>])
         /\ inProgressHistoryMp' =
              [inProgressHistoryMp EXCEPT !.page = @ + 1]
         /\ UNCHANGED isRefreshAllMpArticlesRunning
    [] t.op = "refresh" -> ExitValue(p, t, "ok", NoError, {hasHistory})
    [] OTHER -> Exit(p, t, "ok", NoError)

\* variant: the sweeps catch the error of a feed and go on with the next
ThrowSkipping(p, t, e) ==
  CASE t.op = "all" ->
         IF t.queue = <<>>
         THEN Exit(p, t, "ok", NoError)
         ELSE /\ Goes(p, CallRefresh([t EXCEPT !.queue = Tail(@)],
                                     Head(t.queue), 1))
              /\ UNCHANGED <<inProgressHistoryMp, isRefreshAllMpArticlesRunning>>
    [] t.op \in {"cron", "once"} ->
         /\ Goes(p, [t EXCEPT !.pc = "pause", !.err = NoError, !.blocked = {},
                              !.seen = {}, !.acct = 0])
         /\ UNCHANGED <<inProgressHistoryMp, isRefreshAllMpArticlesRunning>>
    [] OTHER -> Exit(p, t, "error", e)

\* variant: refreshMpArticlesAndUpdateFeed takes a failed fetch for an empty
\* page and goes on to update the feed
ThrowAsEmptyPage(p, t, e) ==
  IF t.op = "mpinfo"
  THEN Exit(p, t, "error", e)
  ELSE /\ Goes(p, [t EXCEPT !.pc = "updFeed", !.err = e, !.blocked = {},
                            !.seen = {}, !.acct = 0, !.hasHistory = 0,
                            !.syncTime = now])
       /\ UNCHANGED <<inProgressHistoryMp, isRefreshAllMpArticlesRunning>>

\* An error leaves getMpArticles / getMpInfo: every caller lets it through;
\* handleUpdateFeedsCron and updateFeedOnce sleep in a finally on its way.
Throw(p, t, e) ==
  IF t.op \in {"cron", "once"}
  THEN /\ Goes(p, [t EXCEPT !.pc = "pause", !.err = e, !.blocked = {},
                            !.seen = {}, !.acct = 0])
       /\ UNCHANGED <<inProgressHistoryMp, isRefreshAllMpArticlesRunning>>
  ELSE Exit(p, t, "error", e)

(***************************************************************************)
(* getAvailableAccount, getMpArticles, getMpInfo, handleAccountError.      *)
(***************************************************************************)
\* accounts[Math.floor(Math.random() * accounts.length)]
PickAccount(found) == found

\* getAvailableAccounts answered: a credential is picked and the upstream
\* request is sent, or the selection throws (outside the try of its caller).
AccountsDone(p) ==
  LET t == task[p] IN
  /\ t.pc = "accounts"
  /\ \E found \in getAvailableAccounts(accounts, t.blocked) :
       IF found = {}
       THEN Throw(p, t, NoCredentialAvailable)
       ELSE /\ \E a \in PickAccount(found) :
                 Goes(p, [t EXCEPT !.pc = "fetch", !.acct = a,
                                   !.blocked = {}, !.seen = {}])
            /\ UNCHANGED <<inProgressHistoryMp, isRefreshAllMpArticlesRunning>>
  /\ UNCHANGED <<now, accounts, feeds, articles, blockedAccountsMap,
                 rateLimited, lastUpsert>>

\* variant: articles.length <= defaultCount ? 0 : 1
HasHistoryOfLenient(arts) == IF Len(arts) <= defaultCount THEN 0 ELSE 1

\* const hasHistory = articles.length < defaultCount ? 0 : 1
HasHistoryOf(arts) == IF Len(arts) < defaultCount THEN 0 ELSE 1

\* The upstream answered the page request of getMpArticles with arts (or the
\* source-info request of getMpInfo): refreshMpArticlesAndUpdateFeed goes on
\* to its next await.
Fetched(p, arts) ==
  LET t == task[p] IN
  /\ t.pc = "fetch"
  /\ IF t.op = "mpinfo"
     THEN Exit(p, t, "ok", NoError)
     ELSE /\ Goes(p, IF Len(arts) > 0
                     THEN [t EXCEPT !.pc = "upsert", !.arts = arts, !.acct = 0,
                                    !.err = NoError, !.retry = 0]
                     ELSE [t EXCEPT !.pc = "updFeed", !.acct = 0,
                                    !.err = NoError, !.retry = 0,
                                    !.hasHistory = HasHistoryOf(arts),
                                    !.syncTime = now])
          /\ UNCHANGED <<inProgressHistoryMp, isRefreshAllMpArticlesRunning>>
  /\ UNCHANGED <<now, accounts, feeds, articles, blockedAccountsMap,
                 rateLimited, lastUpsert>>

\* A page of k articles of the feed as the upstream holds it.
FetchOk(p, k) ==
  /\ k = defaultCount => task[p].page < MaxPage
  /\ Fetched(p, PageArticles(task[p].mpId, task[p].page, k))

\* variant: no retry is taken
AfterErrorNoRetry(p, t, e, m, rl) == Exit(p, t, "error", e)

\* variant: the retry is taken while retryCount >= 0
AfterErrorOnceMore(p, t, e, m, rl) ==
  IF t.op # "mpinfo" /\ t.retry >= 0
  THEN /\ Goes(p, BeginSelect(t, t.retry - 1, m, rl))
       /\ UNCHANGED <<inProgressHistoryMp, isRefreshAllMpArticlesRunning>>
  ELSE Throw(p, t, e)

\* After handleAccountError: getMpArticles retries with a fresh selection
\* while retryCount > 0, getMpInfo and the last attempt rethrow.
AfterError(p, t, e, m, rl) ==
  IF t.op # "mpinfo" /\ t.retry > 0
  THEN /\ Goes(p, BeginSelect(t, t.retry - 1, m, rl))
       /\ UNCHANGED <<inProgressHistoryMp, isRefreshAllMpArticlesRunning>>
  ELSE Throw(p, t, e)

\* The upstream request failed with e: handleAccountError(accountId, message).
\* The invocation keeps e as the error of its last request.
FetchErr(p, e) ==
  LET t == [task[p] EXCEPT !.err = e] IN
  /\ t.pc = "fetch"
  /\ IF includes(e.message, "WeReadError401")
     THEN /\ Goes(p, [t EXCEPT !.pc = "updAccount"])
          /\ UNCHANGED <<blockedAccountsMap, rateLimited, inProgressHistoryMp,
                         isRefreshAllMpArticlesRunning>>
     ELSE IF includes(e.message, "WeReadError429")
     THEN /\ blockedAccountsMap' = pushBlockedAccount(blockedAccountsMap, t.acct)
          /\ rateLimited' = rateLimited \cup {t.acct}
          /\ AfterError(p, t, e, blockedAccountsMap', rateLimited')
     ELSE /\ UNCHANGED <<blockedAccountsMap, rateLimited>>
          /\ AfterError(p, t, e, blockedAccountsMap, rateLimited)
  /\ UNCHANGED <<now, accounts, feeds, articles, lastUpsert>>

\* updateAccount(env.DB, accountId, {status: INVALID}) of handleAccountError
\* completed.
UpdAccountDone(p) ==
  LET t == task[p] IN
  /\ t.pc = "updAccount"
  /\ accounts' = updateAccount(accounts, t.acct, [status |-> INVALID])
  /\ AfterError(p, t, t.err, blockedAccountsMap, rateLimited)
  /\ UNCHANGED <<now, feeds, articles, blockedAccountsMap, rateLimited,
                 lastUpsert>>

(***************************************************************************)
(* refreshMpArticlesAndUpdateFeed after the fetch.                         *)
(***************************************************************************)
\* The rows a batch leaves for its ids: for each id the last article of the
\* array that carries it.
LastOf(mpId, arts) ==
  {ArticleRow(mpId, arts[j]) :
     j \in {j \in DOMAIN arts :
              \A k \in DOMAIN arts : k > j => arts[k].id # arts[j].id}}

RecordUpsert(last, mpId, arts) ==
  {r \in last : \A j \in DOMAIN arts : arts[j].id # r.id} \cup LastOf(mpId, arts)

\* upsertArticles(env.DB, mpId, articles) completed.
UpsertDone(p) ==
  LET t == task[p] IN
  /\ t.pc = "upsert"
  /\ articles' = upsertArticles(articles, t.mpId, t.arts)
  /\ lastUpsert' = RecordUpsert(lastUpsert, t.mpId, t.arts)
  /\ Goes(p, [t EXCEPT !.pc = "updFeed", !.hasHistory = HasHistoryOf(t.arts),
                        !.syncTime = now])
  /\ UNCHANGED <<now, accounts, feeds, blockedAccountsMap, inProgressHistoryMp,
                 isRefreshAllMpArticlesRunning, rateLimited>>

\* updateFeed(env.DB, mpId, {syncTime, hasHistory}) completed and
\* refreshMpArticlesAndUpdateFeed returns.
UpdFeedDone(p) ==
  LET t == task[p] IN
  /\ t.pc = "updFeed"
  /\ feeds' = updateFeed(feeds, t.mpId,
                         [syncTime |-> t.syncTime, hasHistory |-> t.hasHistory])
  /\ Return(p, t, t.hasHistory)
  /\ UNCHANGED <<now, accounts, articles, blockedAccountsMap, rateLimited,
                 lastUpsert>>

(***************************************************************************)
(* Entry points: router feed.refreshArticles, feed.getHistoryArticles,     *)
(* platform.getMpInfo.                                                     *)
(***************************************************************************)
Others == <<now, accounts, feeds, articles, blockedAccountsMap, rateLimited,
            lastUpsert>>

\* One of the bounded number of calls is served by a fresh invocation:
\* invocations that are not at work are all alike, so the lowest is taken.
Idle(p) ==
  /\ callsLeft > 0
  /\ task[p].pc = "idle"
  /\ \A q \in Procs : q < p => task[q].pc # "idle"

\* feed.refreshArticles with an mpId: refreshMpArticlesAndUpdateFeed(mpId).
StartRefresh(p, f) ==
  /\ Idle(p)
  /\ Goes(p, CallRefresh([IdleTask EXCEPT !.op = "refresh"], f, 1))
  /\ UNCHANGED <<inProgressHistoryMp, isRefreshAllMpArticlesRunning>>
  /\ UNCHANGED Others

\* platform.getMpInfo: getMpInfo(env, url).
StartMpInfo(p) ==
  /\ Idle(p)
  /\ Goes(p, BeginSelect([IdleTask EXCEPT !.op = "mpinfo"], 0,
                          blockedAccountsMap, rateLimited))
  /\ UNCHANGED <<inProgressHistoryMp, isRefreshAllMpArticlesRunning>>
  /\ UNCHANGED Others

\* variant: the guard never holds
AllFeedsGuardOff(running) == FALSE

\* if (isRefreshAllMpArticlesRunning) return; the guard of the all-feeds sync
AllFeedsGuard(running) == running

\* feed.refreshArticles without an mpId: refreshAllMpArticlesAndUpdateFeed up
\* to the await of listAllFeeds.
StartAll(p) ==
  /\ Idle(p)
  /\ IF AllFeedsGuard(isRefreshAllMpArticlesRunning)
     THEN /\ Returns(p, "all", "skipped", NoError)
          /\ UNCHANGED isRefreshAllMpArticlesRunning
     ELSE /\ isRefreshAllMpArticlesRunning' = TRUE
          /\ Goes(p, [IdleTask EXCEPT !.op = "all", !.pc = "listFeeds"])
  /\ UNCHANGED inProgressHistoryMp
  /\ UNCHANGED Others

\* The sequences that hold each element of S once.
RECURSIVE Orders(_)
Orders(S) ==
  IF S = {} THEN {<<>>}
  ELSE UNION {{<<x>> \o q : q \in Orders(S \ {x})} : x \in S}

\* listAllFeeds answered: the for loop starts.
ListFeedsDone(p) ==
  LET t == task[p] IN
  /\ t.pc = "listFeeds"
  /\ \E q \in Orders(IF t.op = "cron" THEN listEnabledFeeds(feeds)
                                        ELSE listAllFeeds(feeds)) :
       SweepLoop(p, [t EXCEPT !.queue = q])
  /\ UNCHANGED Others

\* The sleep after a feed (all-feeds) or after a page (deep history) is over.
SleepDone(p) ==
  LET t == task[p] IN
  /\ t.pc = "sleep"
  /\ CASE t.op = "all" -> SweepLoop(p, t)
       [] t.op = "cron" ->
            /\ Goes(p, [t EXCEPT !.pc = "pause"])
            /\ UNCHANGED <<inProgressHistoryMp, isRefreshAllMpArticlesRunning>>
       [] OTHER -> HistoryLoop(p, t, inProgressHistoryMp)
  /\ UNCHANGED Others

\* The sleep of 30 s in the finally of handleUpdateFeedsCron / updateFeedOnce
\* is over: a pending error goes on to the caller, else the loop goes on.
PauseDone(p) ==
  LET t == task[p] IN
  /\ t.pc = "pause"
  /\ IF t.err # NoError
     THEN Exit(p, t, "error", t.err)
     ELSE IF t.op = "cron" THEN SweepLoop(p, t) ELSE Exit(p, t, "ok", NoError)
  /\ UNCHANGED Others

\* The scheduled event of the feed cron: handleUpdateFeedsCron up to the
\* await of listEnabledFeeds.
StartCron(p) ==
  /\ Idle(p)
  /\ Goes(p, [IdleTask EXCEPT !.op = "cron", !.pc = "listFeeds"])
  /\ UNCHANGED <<inProgressHistoryMp, isRefreshAllMpArticlesRunning>>
  /\ UNCHANGED Others

\* updateFeedOnce(env, id) up to the first await.
StartOnce(p, f) ==
  /\ Idle(p)
  /\ Goes(p, CallRefresh([IdleTask EXCEPT !.op = "once"], f, 1))
  /\ UNCHANGED <<inProgressHistoryMp, isRefreshAllMpArticlesRunning>>
  /\ UNCHANGED Others

\* if (inProgressHistoryMp.id === mpId) return; the guard of the deep-history sync
HistoryGuard(marker, mpId) == marker.id = mpId

\* feed.getHistoryArticles: getHistoryMpArticles(env, mpId) up to the await
\* of getFeedById.
StartHistory(p, f) ==
  /\ Idle(p)
  /\ IF HistoryGuard(inProgressHistoryMp, f)
     THEN /\ Returns(p, "history", "skipped", NoError)
          /\ UNCHANGED inProgressHistoryMp
     ELSE /\ inProgressHistoryMp' = [id |-> f, page |-> 1]
          /\ IF ~Boolean(f)
             THEN Returns(p, "history", "skipped", NoError)
             ELSE Goes(p, [IdleTask EXCEPT !.op = "history", !.pc = "getFeed",
                                           !.mpId = f])
  /\ UNCHANGED isRefreshAllMpArticlesRunning
  /\ UNCHANGED Others

\* getFeedById answered.
GetFeedDone(p) ==
  LET t == task[p]
      feed == getFeedById(feeds, t.mpId)
  IN
  /\ t.pc = "getFeed"
  /\ IF ~feed.exists \/ feed.hasHistory = 0
     THEN Exit(p, t, "ok", NoError)
     ELSE /\ Goes(p, [t EXCEPT !.pc = "count"])
          /\ UNCHANGED <<inProgressHistoryMp, isRefreshAllMpArticlesRunning>>
  /\ UNCHANGED Others

\* variant: Math.floor(total / defaultCount)
StartPageFloor(total) == total \div defaultCount

\* Math.ceil(total / defaultCount)
StartPage(total) == (total + defaultCount - 1) \div defaultCount

\* countArticlesByMpId answered: the page cursor is set and the loop starts.
CountDone(p) ==
  LET t == task[p]
      total == countArticlesByMpId(articles, t.mpId)
  IN
  /\ t.pc = "count"
  /\ HistoryLoop(p, [t EXCEPT !.i = historyLoopCap],
                 [inProgressHistoryMp EXCEPT !.page = StartPage(total)])
  /\ UNCHANGED Others

(***************************************************************************)
(* tryRefreshAccountFromLogin: the poll loop of the re-authentication.    *)
(* The login session of an attempt is that of the upstream: its result    *)
(* is {message} until the operator scans the code, and carries vid, token *)
(* and username from then on (0 stands for a field that is absent).       *)
(***************************************************************************)
\* The re-authentication attempts under way.
Reauths == {q \in Procs : task[q].op = "reauth"}

\* The health-monitor cycles: "recover" is handleAccountCheckCron of
\* db-queries.ts (invalid credentials, with re-authentication), "detect"
\* that of account-check.ts (enabled credentials, notification only).
MonitorOps == {"recover", "detect"}

\* tryRefreshAccountFromLogin returns: to checkAndHandleAccount, which
\* returns to the loop of handleAccountCheckCron and its sleep, or to the
\* caller of a lone attempt.
AttemptEnds(p, t, res, err, value) ==
  IF t.op = "recover"
  THEN /\ Goes(p, [t EXCEPT !.pc = "monitorSleep", !.i = 0, !.vid = 0,
                            !.token = 0, !.username = 0])
       /\ UNCHANGED <<inProgressHistoryMp, isRefreshAllMpArticlesRunning>>
  ELSE ExitValue(p, t, res, err, value)

\* tryRefreshAccountFromLogin(env, account, loginId) up to the await of the
\* first getLoginResult; account is a row read earlier by the caller.
StartReauth(p, id) ==
  /\ Idle(p)
  /\ Cardinality(Reauths) < MaxReauth
  /\ accounts[id].exists
  /\ Goes(p, [IdleTask EXCEPT !.op = "reauth", !.pc = "poll", !.acct = id,
                               !.name = accounts[id].name])
  /\ UNCHANGED <<inProgressHistoryMp, isRefreshAllMpArticlesRunning>>
  /\ UNCHANGED Others

\* The operator scans the code of the attempt p with the account vid.
Scan(p, vid, username) ==
  LET t == task[p] IN
  /\ \/ t.op = "reauth"
     \/ t.op = "recover" /\ t.pc \in {"poll", "reauthSleep"}
  /\ t.vid = 0
  /\ Goes(p, [t EXCEPT !.vid = vid, !.token = 1, !.username = username])
  /\ UNCHANGED <<inProgressHistoryMp, isRefreshAllMpArticlesRunning>>
  /\ UNCHANGED Others

\* variant: the identity of the session is not compared with account.id
PollDoneAnyIdentity(p) ==
  LET t == task[p] IN
  /\ t.pc = "poll"
  /\ IF t.vid # 0 /\ t.token # 0
     THEN Goes(p, [t EXCEPT !.pc = "reauthUpd"])
     ELSE Goes(p, [t EXCEPT !.pc = "reauthSleep"])
  /\ UNCHANGED <<inProgressHistoryMp, isRefreshAllMpArticlesRunning>>
  /\ UNCHANGED Others

\* getLoginResult answered.
PollDone(p) ==
  LET t == task[p] IN
  /\ t.pc = "poll"
  /\ IF t.vid # 0 /\ t.token # 0
     THEN IF t.vid = t.acct
          THEN /\ Goes(p, [t EXCEPT !.pc = "reauthUpd"])
               /\ UNCHANGED <<inProgressHistoryMp, isRefreshAllMpArticlesRunning>>
          ELSE AttemptEnds(p, t, "mismatch", NoError, {t.i})
     ELSE /\ Goes(p, [t EXCEPT !.pc = "reauthSleep"])
          /\ UNCHANGED <<inProgressHistoryMp, isRefreshAllMpArticlesRunning>>
  /\ UNCHANGED Others

\* getLoginResult threw (a failed response, an aborted request): the catch
\* logs the error and the attempt ends.
PollFails(p, e) ==
  LET t == task[p] IN
  /\ t.pc = "poll"
  /\ AttemptEnds(p, t, "caught", e, {})
  /\ UNCHANGED Others

\* variant: the loop test is attempt <= maxAttempts
ReauthSleepDoneOneMore(p) ==
  LET t == task[p] IN
  /\ t.pc = "reauthSleep"
  /\ IF t.i + 1 <= maxAttempts
     THEN /\ Goes(p, [t EXCEPT !.pc = "poll", !.i = @ + 1])
          /\ UNCHANGED <<inProgressHistoryMp, isRefreshAllMpArticlesRunning>>
     ELSE Exit(p, t, "exhausted", NoError)
  /\ UNCHANGED Others

\* The sleep after a poll without result is over: attempt++ and the loop test.
ReauthSleepDone(p) ==
  LET t == task[p] IN
  /\ t.pc = "reauthSleep"
  /\ IF t.i + 1 < maxAttempts
     THEN /\ Goes(p, [t EXCEPT !.pc = "poll", !.i = @ + 1])
          /\ UNCHANGED <<inProgressHistoryMp, isRefreshAllMpArticlesRunning>>
     ELSE AttemptEnds(p, t, "exhausted", NoError, {})
  /\ UNCHANGED Others

\* The UPDATE of updateAccount(env.DB, account.id, {token, name, status})
\* completed; updateAccount goes on to read the row back.
ReauthUpdated(p) ==
  LET t == task[p] IN
  /\ t.pc = "reauthUpd"
  /\ accounts' = updateAccount(accounts, t.acct,
                               [token |-> t.token,
                                name |-> IF t.username # 0 THEN t.username
                                                           ELSE t.name,
                                status |-> ENABLE])
  /\ Goes(p, [t EXCEPT !.pc = "reauthGet"])
  /\ UNCHANGED <<now, feeds, articles, blockedAccountsMap, rateLimited,
                 lastUpsert, inProgressHistoryMp, isRefreshAllMpArticlesRunning>>

\* updateAccount returned: removeBlockedAccount(account.id) and return.
ReauthSelected(p) ==
  LET t == task[p] IN
  /\ t.pc = "reauthGet"
  /\ blockedAccountsMap' = removeBlockedAccount(blockedAccountsMap, t.acct)
  /\ rateLimited' = rateLimited \ {t.acct}
  /\ AttemptEnds(p, t, "refreshed", NoError, {t.i})
  /\ UNCHANGED <<now, accounts, feeds, articles, lastUpsert>>

(***************************************************************************)
(* The credential health monitor: handleAccountCheckCron and               *)
(* checkAndHandleAccount.                                                  *)
(***************************************************************************)
\* SELECT ... FROM accounts WHERE status = ? (ENABLE)
listEnabledAccountsWithTokens(rows) ==
  {id \in DOMAIN rows : rows[id].exists /\ rows[id].status = ENABLE}

\* The credentials whose status is invalid.
listInvalidAccountsWithTokens(rows) ==
  {id \in DOMAIN rows : rows[id].exists /\ rows[id].status = INVALID}

\* feeds[0]?.id || 'gh_test': the placeholder
PlaceholderId == NumFeeds + 1

\* variant: every failure of the probe is taken for an invalid credential
checkAccountValidityStrict(outcome) == outcome = NoError

\* checkAccountValidity, outcome being NoError when the probe request
\* succeeded and the error it threw otherwise.
checkAccountValidity(outcome) ==
  IF outcome = NoError THEN TRUE
  ELSE IF outcome.status = 401 \/ includes(outcome.message, "WeReadError401")
       THEN FALSE
       ELSE IF outcome.status = 404 THEN TRUE ELSE TRUE

\* The scheduled event of the account check: handleAccountCheckCron up to
\* the await of its listing query.
StartMonitor(p, op) ==
  /\ Idle(p)
  /\ callsLeft > MaxCalls - MaxCycles
  /\ Goes(p, [IdleTask EXCEPT !.op = op, !.pc = "listAccounts"])
  /\ UNCHANGED <<inProgressHistoryMp, isRefreshAllMpArticlesRunning>>
  /\ UNCHANGED Others

\* The for loop of handleAccountCheckCron at its next account:
\* checkAndHandleAccount and checkAccountValidity up to the await of
\* listEnabledFeeds.
MonitorLoop(p, t) ==
  IF t.queue = <<>>
  THEN Exit(p, t, "ok", NoError)
  ELSE /\ Goes(p, [t EXCEPT !.pc = "probeFeeds", !.queue = Tail(@),
                            !.acct = Head(t.queue).id,
                            !.name = Head(t.queue).name,
                            !.err = NoError, !.mpId = EmptyId])
       /\ UNCHANGED <<inProgressHistoryMp, isRefreshAllMpArticlesRunning>>

\* The listing query answered with the rows of the credentials to check.
ListAccountsDone(p) ==
  LET t == task[p] IN
  /\ t.pc = "listAccounts"
  /\ \E q \in Orders(IF t.op = "recover"
                      THEN listInvalidAccountsWithTokens(accounts)
                      ELSE listEnabledAccountsWithTokens(accounts)) :
       MonitorLoop(p, [t EXCEPT !.queue =
                         [j \in DOMAIN q |->
                            [id |-> q[j], name |-> accounts[q[j]].name]]])
  /\ UNCHANGED Others

\* listEnabledFeeds answered: the probe request is sent for the first feed
\* of the answer, or for the placeholder.
ProbeFeedsDone(p) ==
  LET t == task[p] IN
  /\ t.pc = "probeFeeds"
  /\ \E f \in IF listEnabledFeeds(feeds) = {} THEN {PlaceholderId}
                                                ELSE listEnabledFeeds(feeds) :
       Goes(p, [t EXCEPT !.pc = "probe", !.mpId = f])
  /\ UNCHANGED <<inProgressHistoryMp, isRefreshAllMpArticlesRunning>>
  /\ UNCHANGED Others

\* The probe request ended with outcome (NoError: it succeeded) and
\* checkAccountValidity returned to checkAndHandleAccount, which goes on to
\* its next await.
Probed(p, outcome) ==
  LET t == task[p]
      isValid == checkAccountValidity(outcome)
  IN
  /\ t.pc = "probe"
  /\ Goes(p, [t EXCEPT !.err = outcome, !.mpId = EmptyId,
                       !.pc = IF isValid
                              THEN IF t.op = "recover" THEN "markValid"
                                                       ELSE "monitorSleep"
                              ELSE "markInvalid"])
  /\ UNCHANGED <<inProgressHistoryMp, isRefreshAllMpArticlesRunning>>
  /\ UNCHANGED Others

\* updateAccount(env.DB, account.id, {status: ENABLE}) returned.
MarkValidDone(p) ==
  LET t == task[p] IN
  /\ t.pc = "markValid"
  /\ accounts' = updateAccount(accounts, t.acct, [status |-> ENABLE])
  /\ Goes(p, [t EXCEPT !.pc = "monitorSleep"])
  /\ UNCHANGED <<now, feeds, articles, blockedAccountsMap, rateLimited,
                 lastUpsert, inProgressHistoryMp, isRefreshAllMpArticlesRunning>>

\* variant: the login session is asked for without the status update
MarkInvalidDoneWithoutUpdate(p) ==
  LET t == task[p] IN
  /\ t.pc = "markInvalid"
  /\ Goes(p, [t EXCEPT !.pc = "loginUrl"])
  /\ UNCHANGED <<inProgressHistoryMp, isRefreshAllMpArticlesRunning>>
  /\ UNCHANGED Others

\* updateAccount(env.DB, account.id, {status: INVALID}) returned: the login
\* session is asked for.
MarkInvalidDone(p) ==
  LET t == task[p] IN
  /\ t.pc = "markInvalid"
  /\ accounts' = updateAccount(accounts, t.acct, [status |-> INVALID])
  /\ Goes(p, [t EXCEPT !.pc = "loginUrl"])
  /\ UNCHANGED <<now, feeds, articles, blockedAccountsMap, rateLimited,
                 lastUpsert, inProgressHistoryMp, isRefreshAllMpArticlesRunning>>

\* createLoginUrl answered {uuid, scanUrl}: the notification is posted.
LoginUrlDone(p) ==
  LET t == task[p] IN
  /\ t.pc = "loginUrl"
  /\ Goes(p, [t EXCEPT !.pc = "notify"])
  /\ UNCHANGED <<inProgressHistoryMp, isRefreshAllMpArticlesRunning>>
  /\ UNCHANGED Others

\* createLoginUrl threw e: nothing catches it up to the scheduled event.
LoginUrlFails(p, e) ==
  LET t == task[p] IN
  /\ t.pc = "loginUrl"
  /\ Exit(p, t, "error", e)
  /\ UNCHANGED Others

\* The POST of sendWebhookNotification got a response, with whatever HTTP
\* status: the polling starts (recover), or checkAndHandleAccount returns.
NotifyDone(p, status) ==
  LET t == task[p] IN
  /\ t.pc = "notify"
  /\ Goes(p, IF t.op = "recover"
             THEN [t EXCEPT !.pc = "poll", !.i = 0]
             ELSE [t EXCEPT !.pc = "monitorSleep"])
  /\ UNCHANGED <<inProgressHistoryMp, isRefreshAllMpArticlesRunning>>
  /\ UNCHANGED Others

\* The POST got no response: fetch rejects with e, and nothing catches it
\* up to the scheduled event.
NotifyFails(p, e) ==
  LET t == task[p] IN
  /\ t.pc = "notify"
  /\ Exit(p, t, "error", e)
  /\ UNCHANGED Others

\* The sleep of 5 s after an account is over.
MonitorSleepDone(p) ==
  LET t == task[p] IN
  /\ t.pc = "monitorSleep"
  /\ MonitorLoop(p, t)
  /\ UNCHANGED Others

(***************************************************************************)
(* Administration (the account procedures of the router) and the clock.   *)
(***************************************************************************)
\* One of the bounded number of administration requests is made.
Admin ==
  /\ adminLeft > 0
  /\ adminLeft' = adminLeft - 1
  /\ lastExit' = NoExit
  /\ UNCHANGED <<callsLeft, preempted>>

\* account.add: upsertAccount, then removeBlockedAccount.
AccountAdd(id, status) ==
  /\ accounts' = upsertAccount(accounts, [id |-> id, token |-> 0, name |-> 0,
                                       status |-> status])
  /\ blockedAccountsMap' = removeBlockedAccount(blockedAccountsMap, id)
  /\ rateLimited' = rateLimited \ {id}
  /\ Admin
  /\ UNCHANGED <<now, feeds, articles, inProgressHistoryMp,
                 isRefreshAllMpArticlesRunning, task, lastUpsert>>

\* variant: account.edit without removeBlockedAccount
AccountEditKeepingBlocked(id, data) ==
  /\ accounts' = updateAccount(accounts, id, data)
  /\ Admin
  /\ UNCHANGED <<now, feeds, articles, inProgressHistoryMp, rateLimited,
                 blockedAccountsMap, isRefreshAllMpArticlesRunning, task,
                 lastUpsert>>

\* account.edit: updateAccount, then removeBlockedAccount.
AccountEdit(id, data) ==
  /\ accounts' = updateAccount(accounts, id, data)
  /\ blockedAccountsMap' = removeBlockedAccount(blockedAccountsMap, id)
  /\ rateLimited' = rateLimited \ {id}
  /\ Admin
  /\ UNCHANGED <<now, feeds, articles, inProgressHistoryMp,
                 isRefreshAllMpArticlesRunning, task, lastUpsert>>

\* account.delete: deleteAccount, then removeBlockedAccount.
AccountDelete(id) ==
  /\ accounts' = deleteAccount(accounts, id)
  /\ blockedAccountsMap' = removeBlockedAccount(blockedAccountsMap, id)
  /\ rateLimited' = rateLimited \ {id}
  /\ Admin
  /\ UNCHANGED <<now, feeds, articles, inProgressHistoryMp,
                 isRefreshAllMpArticlesRunning, task, lastUpsert>>

\* The clock advances.  The map keeps the arrays of past dates for ever, but
\* no code reads them again (getTodayDate never goes back): the model drops
\* them when the date changes.
Tick ==
  /\ now < MaxTime
  /\ now' = now + 1
  /\ LET today == (now + 1) \div TicksPerDay IN
       /\ blockedAccountsMap' =
            [d \in Days |-> IF d < today THEN <<>> ELSE blockedAccountsMap[d]]
       /\ rateLimited' = IF today = getTodayDate THEN rateLimited ELSE {}
  /\ lastExit' = NoExit
  /\ UNCHANGED <<adminLeft, callsLeft, preempted>>
  /\ UNCHANGED <<accounts, feeds, articles, inProgressHistoryMp,
                 isRefreshAllMpArticlesRunning, task, lastUpsert>>

(***************************************************************************)
(* Initial states: a worker that has just started (empty blocklist, idle   *)
(* marker, clear flag, no invocation) over a database left by earlier      *)
(* runs.                                                                   *)
(***************************************************************************)
AccountRow(status) ==
  [exists |-> TRUE, status |-> status, token |-> 0, name |-> 0, createdAt |-> 0]

FeedRow(hasHistory) ==
  [exists |-> TRUE, status |-> ENABLE, syncTime |-> 0, hasHistory |-> hasHistory]

\* The first n articles of a feed, stored by earlier syncs of its pages 1, 2, ...
RECURSIVE StoredArticles(_, _, _)
StoredArticles(f, page, n) ==
  IF n <= 0 THEN {}
  ELSE upsertArticles(StoredArticles(f, page + 1, n - defaultCount), f,
                      PageArticles(f, page, Min(n, defaultCount)))

InitProcess ==
  /\ now = 0
  /\ blockedAccountsMap = [d \in Days |-> <<>>]
  /\ inProgressHistoryMp = IdleMarker
  /\ isRefreshAllMpArticlesRunning = FALSE
  /\ task = [p \in Procs |-> IdleTask]
  /\ rateLimited = {}
  /\ lastExit = NoExit
  /\ adminLeft = MaxAdminOps
  /\ callsLeft = MaxCalls
  /\ preempted = {}

(***************************************************************************)
(* SpecCred: credential selection, the blocklist and the classification    *)
(* of upstream failures, under concurrent single-feed syncs, source-info   *)
(* fetches, the account administration and the passing of days.            *)
(***************************************************************************)
InitCred ==
  /\ InitProcess
  /\ accounts = [id \in AccountIds |-> AccountRow(ENABLE)]
  /\ feeds = [f \in FeedIds |-> IF f = 1 THEN FeedRow(0) ELSE NoFeed]
  /\ articles = {}
  /\ lastUpsert = {}

NextCred ==
  \/ \E p \in Procs : StartRefresh(p, 1)
  \/ \E p \in Procs : StartMpInfo(p)
  \/ \E p \in Procs : AccountsDone(p)
  \/ \E p \in Procs : FetchOk(p, 0)
  \/ \E p \in Procs : \E e \in Errors : FetchErr(p, e)
  \/ \E p \in Procs : UpdAccountDone(p)
  \/ \E p \in Procs : UpdFeedDone(p)
  \/ \E id \in AccountIds : \E status \in Statuses : AccountAdd(id, status)
  \/ \E id \in AccountIds : \E status \in Statuses :
       AccountEdit(id, [status |-> status])
  \/ \E id \in AccountIds : AccountDelete(id)
  \/ Tick

SpecCred == InitCred /\ [][NextCred]_vars

(***************************************************************************)
(* Claims on credential selection and the blocklist (SpecCred).            *)
(***************************************************************************)
\* The stored credentials with status valid that are not among ids.
ValidOutside(ids) ==
  {id \in AccountIds :
     accounts[id].exists /\ accounts[id].status = ENABLE /\ id \notin ids}

\* The selection of invocation p completes in this step.
SelectionEnds(p) == task[p].pc = "accounts" /\ task'[p] # task[p]

\* The selection of invocation p starts in this step (first attempt or retry).
SelectionStarts(p) == task'[p].pc = "accounts" /\ task'[p] # task[p]

\* C1: a selection reads today's blocklist when it starts; the credential it
\* returns is stored with status valid at the moment the store answers and
\* was not in the blocklist read; when no such credential exists the
\* selection fails with NoCredentialAvailable and returns none.
C1_SelectionSound ==
  [][\A p \in Procs :
       /\ SelectionStarts(p) =>
            task'[p].blocked = ToSet(BlockedToday(blockedAccountsMap)')
       /\ SelectionEnds(p) =>
            IF ValidOutside(task[p].blocked) = {}
            THEN /\ task'[p].pc = "idle"
                 /\ lastExit' = [p |-> p, op |-> task[p].op, res |-> "error",
                                 err |-> NoCredentialAvailable, value |-> {}]
            ELSE /\ task'[p].pc = "fetch"
                 /\ task'[p].acct \in ValidOutside(task[p].blocked)]_vars

\* A selection has just failed with NoCredentialAvailable although a stored
\* credential is valid: it is in today's blocklist.
C1_Witness ==
  /\ lastExit.res = "error"
  /\ lastExit.err = NoCredentialAvailable
  /\ \E id \in AccountIds :
       /\ accounts[id].exists /\ accounts[id].status = ENABLE
       /\ id \in ToSet(BlockedToday(blockedAccountsMap))

\* The step is the classification Unauthorized of a failure of invocation p.
ClassifiedUnauthorized(p) == task[p].pc = "fetch" /\ task'[p].pc = "updAccount"

\* The step completes the handling of an Unauthorized failure of invocation p.
UnauthorizedHandled(p) == task[p].pc = "updAccount" /\ task'[p] # task[p]

\* C2: the handling of an Unauthorized failure for credential X leaves X (if
\* still stored) with status invalid and does not touch the blocklist, and a
\* selection never returns a credential whose stored status is invalid.
C2_UnauthorizedInvalidates ==
  [][\A p \in Procs :
       /\ ClassifiedUnauthorized(p) =>
            /\ blockedAccountsMap' = blockedAccountsMap
            /\ task'[p].acct = task[p].acct
       /\ UnauthorizedHandled(p) =>
            /\ blockedAccountsMap' = blockedAccountsMap
            /\ accounts'[task[p].acct].exists =>
                 accounts'[task[p].acct].status = INVALID
       /\ (SelectionEnds(p) /\ task'[p].pc = "fetch") =>
            accounts[task'[p].acct].status # INVALID]_vars

\* An Unauthorized failure has been handled, the retry's selection is under
\* way, and an invalid credential is stored that is not in the blocklist.
C2_Witness ==
  \E p \in Procs :
    /\ task[p].pc = "accounts"
    /\ task[p].err = Unauthorized
    /\ \E id \in AccountIds :
         /\ accounts[id].exists /\ accounts[id].status = INVALID
         /\ id \notin ToSet(BlockedToday(blockedAccountsMap))

\* C3 as stated: no selection returns a credential that had a rate-limit
\* signal earlier today and no re-validation since.
C3_NeverReturnedToday ==
  [][\A p \in Procs :
       (SelectionEnds(p) /\ task'[p].pc = "fetch") =>
          task'[p].acct \notin rateLimited]_vars

\* today's blocklist holds exactly the credentials with a rate-limit signal
\* today and no re-validation since: no addition is lost, none outlives the day
BlocklistExact ==
  ToSet(getBlockedAccountIds(blockedAccountsMap)) = rateLimited

\* C3, amended: a rate-limit signal for X leaves every stored status as it
\* is; today's blocklist is exactly the set of credentials with a signal
\* today and no re-validation since (so X is eligible again the next day);
\* and a selection that starts after the signal, on the same day and before
\* a re-validation, does not return X.
C3_RateLimitedExcluded ==
  /\ []BlocklistExact
  /\ [][/\ (rateLimited' # rateLimited /\ rateLimited \subseteq rateLimited') =>
             accounts' = accounts
        /\ \A p \in Procs :
             /\ SelectionStarts(p) => task'[p].seen = rateLimited'
             /\ (SelectionEnds(p) /\ task'[p].pc = "fetch") =>
                  task'[p].acct \notin task[p].seen]_vars

\* A selection is under way that started after a rate-limit signal for a
\* credential whose stored status is still valid.
C3_Witness ==
  \E p \in Procs :
    /\ task[p].pc = "accounts"
    /\ \E id \in task[p].seen :
         accounts[id].exists /\ accounts[id].status = ENABLE

(***************************************************************************)
(* Claims on the retries of getMpArticles (SpecCred).                      *)
(***************************************************************************)
\* Invocation p is in a call of getMpArticles.
InPageFetch(p) ==
  task[p].op # "mpinfo" /\ task[p].pc \in {"accounts", "fetch", "updAccount"}

\* The upstream requests the call of getMpArticles of p has sent so far, its
\* retryCount having started at the default.
RequestsMade(p) ==
  (retryCountDefault - task[p].retry) + (IF task[p].pc = "accounts" THEN 0 ELSE 1)

\* C13 as stated: a call of getMpArticles with the default retry count sends
\* at most 3 upstream requests.
C13_AtMostThreeRequests ==
  \A p \in Procs : InPageFetch(p) => RequestsMade(p) <= 3

\* C13: a call of getMpArticles with the default retry count sends at most
\* retryCountDefault + 1 = 4 upstream requests, the first and one for each of
\* at most 3 retries: a retry is taken only while retryCount > 0 and lowers
\* it by one, and a failure at retryCount 0 is surfaced.
C13_AtMostFourRequests ==
  /\ [](\A p \in Procs :
          InPageFetch(p) => /\ task[p].retry \in 0..retryCountDefault
                            /\ RequestsMade(p) <= retryCountDefault + 1)
  /\ [][\A p \in Procs :
          /\ InPageFetch(p) /\ task[p].pc # "accounts"
          /\ task'[p].pc = "accounts"
          => /\ task[p].retry > 0
             /\ task'[p].retry = task[p].retry - 1]_vars

\* The fourth request of a call is in flight.
C13_Witness ==
  \E p \in Procs :
    InPageFetch(p) /\ task[p].pc = "fetch" /\ RequestsMade(p) = 4

\* The call of getMpArticles of p throws to its caller in this step.
PageFetchThrows(p) ==
  InPageFetch(p) /\ lastExit'.p = p /\ lastExit'.res = "error"

\* C14 as stated: a call of getMpArticles that has sent a request and throws
\* surfaces the error of the last request it sent.
C14_SurfacesLastRequestError ==
  [][\A p \in Procs :
       PageFetchThrows(p)
       => /\ task[p].pc = "fetch" => lastExit'.err \in Errors
          /\ task[p].pc = "updAccount" => lastExit'.err = task[p].err
          /\ task[p].pc = "accounts" /\ RequestsMade(p) > 0
               => lastExit'.err = task[p].err]_vars

\* C14: a call of getMpArticles throws either from the catch of its last
\* request (retryCount 0), and then surfaces the error of that request, or
\* from a credential selection that found no usable credential, and then
\* surfaces NoCredentialAvailable, whatever the earlier requests failed with.
C14_SurfacesLastErrorOrNoCredential ==
  [][\A p \in Procs :
       PageFetchThrows(p)
       => /\ task[p].pc = "fetch"
               => task[p].retry = 0 /\ lastExit'.err \in Errors
          /\ task[p].pc = "updAccount"
               => task[p].retry = 0 /\ lastExit'.err = task[p].err
          /\ task[p].pc = "accounts"
               => /\ lastExit'.err = NoCredentialAvailable
                  /\ ValidOutside(task[p].blocked) = {}]_vars

\* The only call made so far found both credentials usable, sent requests
\* whose failures invalidated or blocked each of them, and surfaced
\* NoCredentialAvailable.
C14_Witness ==
  /\ lastExit.res = "error" /\ lastExit.err = NoCredentialAvailable
  /\ lastExit.op = "refresh"
  /\ callsLeft = MaxCalls - 1 /\ adminLeft = MaxAdminOps /\ now = 0
  /\ \A id \in AccountIds :
       \/ accounts[id].status = INVALID
       \/ id \in ToSet(BlockedToday(blockedAccountsMap))

(***************************************************************************)
(* SpecClassify: single-feed syncs whose requests fail in every way the    *)
(* upstream and the network can make them fail.                            *)
(***************************************************************************)
NextClassify ==
  \/ \E p \in Procs : StartRefresh(p, 1)
  \/ \E p \in Procs : AccountsDone(p)
  \/ \E p \in Procs : FetchOk(p, 0)
  \/ \E p \in Procs : \E e \in AllErrors : FetchErr(p, e)
  \/ \E p \in Procs : UpdAccountDone(p)
  \/ \E p \in Procs : UpdFeedDone(p)

SpecClassify == InitCred /\ [][NextClassify]_vars

\* The error the request of invocation p failed with in this step.
FailedWith(p) ==
  IF task'[p].pc = "idle" THEN lastExit'.err ELSE task'[p].err

\* The request of invocation p fails in this step.
RequestFails(p) ==
  task[p].pc = "fetch" /\ task'[p] # task[p] /\ FailedWith(p) # NoError

\* C15: a failed request whose response has status 401 or whose message
\* holds the unauthorized marker leads to the invalidation of the credential
\* used; any other whose response has status 429 or whose message holds the
\* rate-limited marker puts the credential on today's blocklist.
C15_ClassifiesByStatus ==
  [][\A p \in Procs :
       RequestFails(p)
       => LET e == FailedWith(p) IN
          IF e.status = 401 \/ includes(e.message, "WeReadError401")
          THEN task'[p].pc = "updAccount"
          ELSE (e.status = 429 \/ includes(e.message, "WeReadError429"))
               => task[p].acct \in ToSet(BlockedToday(blockedAccountsMap'))]_vars

\* C16: a failed request whose error is neither Unauthorized nor RateLimited
\* (status other than 401 and 429, no marker in the message; network errors
\* and timeouts are such) changes no credential row and no blocklist entry,
\* and starts no update of a credential.
C16_OtherErrorsChangeNothing ==
  [][\A p \in Procs :
       RequestFails(p)
       => LET e == FailedWith(p) IN
          (/\ e.status \notin {401, 429}
           /\ "WeReadError401" \notin e.message
           /\ "WeReadError429" \notin e.message)
          => /\ accounts' = accounts
             /\ blockedAccountsMap' = blockedAccountsMap
             /\ task'[p].pc # "updAccount"]_vars

\* A call whose four requests all timed out has thrown; the credentials are
\* valid and the blocklist is empty as before.
C16_Witness ==
  /\ lastExit.res = "error" /\ lastExit.err = NetworkError
  /\ \A id \in AccountIds : accounts[id] = AccountRow(ENABLE)
  /\ BlockedToday(blockedAccountsMap) = <<>>

(***************************************************************************)
(* SpecSelect: credential selections over a store of accountsLimit + 1     *)
(* credentials, created one after the other or all in the same            *)
(* millisecond, the first three of them valid or not; rate-limit answers  *)
(* fill the blocklist.                                                     *)
(***************************************************************************)
LargeStore == 1..(accountsLimit + 1)

InitSelect ==
  /\ InitProcess
  /\ \E st \in [1..3 -> {ENABLE, INVALID}] : \E tie \in BOOLEAN :
       accounts =
         [id \in LargeStore |->
            [AccountRow(IF id \in DOMAIN st THEN st[id] ELSE ENABLE)
               EXCEPT !.createdAt = IF tie THEN 0 ELSE id]]
  /\ feeds = [f \in FeedIds |-> NoFeed]
  /\ articles = {}
  /\ lastUpsert = {}

NextSelect ==
  \/ \E p \in Procs : StartMpInfo(p)
  \/ \E p \in Procs : AccountsDone(p)
  \/ \E p \in Procs : FetchOk(p, 0)
  \/ \E p \in Procs : FetchErr(p, RateLimited)

SpecSelect == InitSelect /\ [][NextSelect]_vars

\* The stored credentials with status valid outside the blocklist read by
\* the selection of invocation p.
Candidates(p) ==
  {id \in DOMAIN accounts :
     /\ accounts[id].exists /\ accounts[id].status = ENABLE
     /\ id \notin task[p].blocked}

\* C18: when the store answers a selection, every stored credential with
\* status valid that is not in the blocklist read is a possible result of
\* the selection, whatever the number of stored credentials.
C18_EveryCandidateSelectable ==
  \A p \in Procs :
    task[p].pc = "accounts"
    => \A id \in Candidates(p) :
         \E found \in getAvailableAccounts(accounts, task[p].blocked) :
           id \in PickAccount(found)

(***************************************************************************)
(* SpecAll: the all-feeds sync called again and again, its feeds fetched   *)
(* with upstream failures of every class.                                  *)
(***************************************************************************)
InitAll ==
  /\ InitProcess
  /\ accounts = [id \in AccountIds |-> AccountRow(ENABLE)]
  /\ feeds = [f \in FeedIds |-> FeedRow(1)]
  /\ articles = {}
  /\ lastUpsert = {}

NextAll ==
  \/ \E p \in Procs : StartAll(p)
  \/ \E p \in Procs : ListFeedsDone(p)
  \/ \E p \in Procs : AccountsDone(p)
  \/ \E p \in Procs : FetchOk(p, 0)
  \/ \E p \in Procs : \E e \in Errors : FetchErr(p, e)
  \/ \E p \in Procs : UpdAccountDone(p)
  \/ \E p \in Procs : UpdFeedDone(p)
  \/ \E p \in Procs : SleepDone(p)

SpecAll == InitAll /\ [][NextAll]_vars

\* The invocations of the all-feeds sync that passed the guard and have not
\* ended.
Sweeps == {p \in Procs : task[p].op = "all"}

\* C4: at no time are two all-feeds sweeps executing, and the flag is up
\* exactly while one executes; a call made while the flag is up returns at
\* once, and the step changes neither the flag nor any invocation, row or
\* blocklist entry (nothing is fetched, nothing is queued); a call made while
\* the flag is down starts the sweep.
C4_OneSweep ==
  /\ [](/\ Cardinality(Sweeps) <= 1
        /\ isRefreshAllMpArticlesRunning <=> (Sweeps # {}))
  /\ [][\A p \in Procs :
          /\ (task[p].pc = "idle" /\ isRefreshAllMpArticlesRunning
                /\ lastExit'.p = p) =>
               /\ lastExit' = [p |-> p, op |-> "all", res |-> "skipped",
                               err |-> NoError, value |-> {}]
               /\ UNCHANGED <<task, isRefreshAllMpArticlesRunning, accounts,
                              feeds, articles, blockedAccountsMap,
                              inProgressHistoryMp>>
          /\ (task[p].pc = "idle" /\ task'[p].pc # "idle") =>
               /\ ~isRefreshAllMpArticlesRunning
               /\ isRefreshAllMpArticlesRunning'
               /\ task'[p].op = "all"]_vars

\* A second call has just returned at the guard while the sweep of the first
\* is waiting for a page.
C4_Witness ==
  /\ lastExit.op = "all" /\ lastExit.res = "skipped"
  /\ \E p \in Procs : task[p].op = "all" /\ task[p].pc = "fetch"

\* C20: the flag is down whenever no all-feeds sweep is executing: the step
\* in which a sweep ends, after its last feed or through the error of a
\* feed's sync, puts the flag down, and a call made while no sweep is
\* executing is not turned away at the guard.
C20_FlagDownWithoutSweep ==
  /\ [](Sweeps = {} => ~isRefreshAllMpArticlesRunning)
  /\ [][\A p \in Procs :
          /\ (p \in Sweeps /\ lastExit'.p = p)
               => /\ lastExit'.res \in {"ok", "error"}
                  /\ ~isRefreshAllMpArticlesRunning'
                  /\ task'[p] = IdleTask
          /\ (Sweeps = {} /\ task[p].pc = "idle" /\ task'[p] # task[p])
               => /\ task'[p].op = "all" /\ task'[p].pc = "listFeeds"
                  /\ isRefreshAllMpArticlesRunning']_vars

\* A sweep has just ended through the error of a feed's sync: the flag is
\* down and no sweep is executing.
C20_Witness ==
  /\ lastExit.op = "all" /\ lastExit.res = "error"
  /\ lastExit.err \in Errors
  /\ Sweeps = {} /\ ~isRefreshAllMpArticlesRunning

(***************************************************************************)
(* SpecSweep: all-feeds sweeps and scheduled sweeps over two stored feeds, *)
(* each enabled or disabled, with upstream failures.                       *)
(***************************************************************************)
InitSweep ==
  /\ InitProcess
  /\ accounts = [id \in AccountIds |-> AccountRow(ENABLE)]
  /\ \E st \in [FeedIds -> {ENABLE, DISABLE}] :
       feeds = [f \in FeedIds |-> [FeedRow(1) EXCEPT !.status = st[f]]]
  /\ articles = {}
  /\ lastUpsert = {}

NextSweep ==
  \/ \E p \in Procs : StartAll(p)
  \/ \E p \in Procs : StartCron(p)
  \/ \E p \in Procs : ListFeedsDone(p)
  \/ \E p \in Procs : AccountsDone(p)
  \/ \E p \in Procs : FetchOk(p, 0)
  \/ \E p \in Procs : FetchErr(p, ServerError)
  \/ \E p \in Procs : UpdFeedDone(p)
  \/ \E p \in Procs : SleepDone(p)
  \/ \E p \in Procs : PauseDone(p)

SpecSweep == InitSweep /\ [][NextSweep]_vars

\* The step takes invocation p out of a feed's sync otherwise than by the
\* return of refreshMpArticlesAndUpdateFeed.
SyncThrows(p) ==
  /\ task[p].pc \in {"accounts", "fetch", "updAccount"}
  /\ task'[p] # task[p]
  /\ task'[p].pc \notin {"accounts", "fetch", "updAccount", "upsert", "updFeed"}

\* The feeds a sweep has still to sync, the one at work included.
Planned(t) ==
  (IF t.pc = "idle" THEN {} ELSE {t.mpId}) \cup ToSet(t.queue)

\* C21: when the sync of a feed throws in an all-feeds sweep, the sweep ends
\* in that step with the error; in a scheduled sweep the error is kept over
\* the pause of the finally and the sweep ends with it when the pause is
\* over; in both the feeds still queued are dropped unsynced.
C21_SweepAbortsOnThrow ==
  [][\A p \in Procs :
       /\ (task[p].op = "all" /\ SyncThrows(p))
            => /\ task'[p] = IdleTask
               /\ lastExit'.p = p /\ lastExit'.res = "error"
               /\ lastExit'.err # NoError
       /\ (task[p].op = "cron" /\ SyncThrows(p))
            => /\ task'[p].pc = "pause" /\ task'[p].err # NoError
               /\ task'[p].queue = task[p].queue
       /\ (task[p].op = "cron" /\ task[p].pc = "pause"
              /\ task[p].err # NoError /\ task'[p] # task[p])
            => /\ task'[p] = IdleTask
               /\ lastExit' = [p |-> p, op |-> "cron", res |-> "error",
                               err |-> task[p].err, value |-> {}]]_vars

\* The only sweep so far, a scheduled one over two enabled feeds, has ended
\* with the error of its first feed: neither feed was synced.
C21_Witness ==
  /\ lastExit.op = "cron" /\ lastExit.res = "error"
  /\ callsLeft = MaxCalls - 1
  /\ \A f \in FeedIds : feeds[f].status = ENABLE /\ feeds[f].hasHistory = 1

\* C22: a scheduled sweep plans the stored feeds with status enable, an
\* all-feeds sweep every stored feed, and both sync page 1 of each; in the
\* scheduled sweep the sync of a feed is followed by the pause of the
\* finally, after the update delay when it returned and at once when it
\* threw, and only when the pause is over does the sweep go on or end.
C22_ScheduledSweepsEnabled ==
  [][\A p \in Procs :
       LET t == task[p] IN
       /\ (t.pc = "listFeeds" /\ task'[p] # t)
            => Planned(task'[p]) =
                 {f \in FeedIds :
                    /\ feeds[f].exists
                    /\ t.op = "cron" => feeds[f].status = ENABLE}
       /\ (t.op \in {"all", "cron"} /\ task'[p].pc = "accounts")
            => task'[p].page = 1
       /\ (t.op = "cron" /\ task'[p] # t)
            => /\ t.pc = "updFeed" => task'[p].pc = "sleep"
               /\ t.pc = "sleep" => task'[p].pc = "pause"
               /\ SyncThrows(p) => task'[p].pc = "pause"
               /\ (task'[p].pc = "idle" \/ task'[p].mpId # t.mpId)
                    => t.pc \in {"listFeeds", "pause"}]_vars

\* A scheduled sweep over a store with feed 1 enabled and feed 2 disabled
\* planned feed 1 alone, whose sync threw: the pause is being taken.
C22_Witness ==
  \E p \in Procs :
    /\ task[p].op = "cron" /\ task[p].pc = "pause" /\ task[p].err # NoError
    /\ task[p].mpId = 1 /\ task[p].queue = <<>>
    /\ feeds[1].status = ENABLE /\ feeds[2].status = DISABLE

(***************************************************************************)
(* SpecHist: deep-history syncs of two feeds called again and again (also  *)
(* with the empty id the router passes for a missing mpId), over a feed    *)
(* with some articles already stored.                                      *)
(***************************************************************************)
StoredCounts == {0, 20, 40, 45}

\* The upstream holds one article less than MaxPage full pages of each feed:
\* the length of its page of a feed (for a page below 1, which the upstream
\* does not document, any length).
UpstreamLens(page) ==
  IF page < 1 THEN PageLens
  ELSE IF page < MaxPage THEN {defaultCount}
  ELSE IF page = MaxPage THEN {defaultCount - 1}
  ELSE {0}

\* The upstream answered the page request of invocation p.
FetchPage(p) == \E k \in UpstreamLens(task[p].page) : FetchOk(p, k)

InitHist ==
  /\ InitProcess
  /\ accounts = [id \in AccountIds |-> AccountRow(ENABLE)]
  /\ feeds = [f \in FeedIds |-> FeedRow(1)]
  /\ \E n \in StoredCounts :
       articles = UNION {StoredArticles(f, 1, IF f = 1 THEN n ELSE defaultCount) :
                           f \in FeedIds}
  /\ lastUpsert = articles

NextHist ==
  \/ \E p \in Procs : \E f \in FeedIds \cup {EmptyId} : StartHistory(p, f)
  \/ \E p \in Procs : GetFeedDone(p)
  \/ \E p \in Procs : CountDone(p)
  \/ \E p \in Procs : AccountsDone(p)
  \/ \E p \in Procs : FetchPage(p)
  \/ \E p \in Procs : UpsertDone(p)
  \/ \E p \in Procs : UpdFeedDone(p)
  \/ \E p \in Procs : SleepDone(p)

SpecHist == InitHist /\ [][NextHist]_vars

\* C5 as stated, in its weakest form: two deep-history invocations for one
\* feed never have a page request in flight together.
C5_OneHistoryPerFeed ==
  \A p, q \in Procs :
    (/\ p # q
     /\ task[p].op = "history" /\ task[q].op = "history"
     /\ task[p].mpId = task[q].mpId)
    => ~(task[p].pc = "fetch" /\ task[q].pc = "fetch")

\* C6 as stated: a deep-history invocation whose marker a call for another
\* feed has overwritten ends, without an error, at the next top of its loop.
C6_PreemptedExits ==
  [][\A p \in Procs :
       (p \in preempted /\ task[p].pc \in {"count", "sleep"}
          /\ task'[p] # task[p]) =>
         /\ task'[p].pc = "idle"
         /\ lastExit' = [p |-> p, op |-> "history", res |-> "ok",
                         err |-> NoError, value |-> {}]]_vars

\* The deep-history invocation p requests its first page in this step.
FirstPageRequested(p) == task[p].pc = "count" /\ task'[p].pc = "accounts"

\* C7 as stated: the first page is the one after the pages already stored,
\* and not page 1 when articles are stored.
C7_NextPageAfterStored ==
  [][\A p \in Procs :
       FirstPageRequested(p) =>
         LET n == countArticlesByMpId(articles, task[p].mpId) IN
         /\ task'[p].page = (n \div defaultCount) + 1
         /\ n > 0 => task'[p].page # 1]_vars

\* C7, amended: with n articles stored the first page requested is
\* ceil(n / 20), the least q with 20 * q >= n (page 3 for 45): the page that
\* holds the n-th stored article, fetched again even when it is stored in
\* full, which is page 1 for 1 <= n <= 20; and page 0 for n = 0.
C7_FirstPage ==
  [][\A p \in Procs :
       FirstPageRequested(p) =>
         LET n == countArticlesByMpId(articles, task[p].mpId)
             q == task'[p].page
         IN /\ defaultCount * q >= n
            /\ defaultCount * (q - 1) < n
            /\ inProgressHistoryMp'.page = q
            /\ n = 45 => q = 3
            /\ n \in 1..defaultCount => q = 1
            /\ n = 0 => q = 0]_vars

\* The first page request of a deep-history sync is under way for a feed
\* with 45 stored articles: page 3.
C7_Witness ==
  \E p \in Procs :
    /\ task[p].op = "history" /\ task[p].pc = "accounts"
    /\ task[p].i = historyLoopCap - 1
    /\ countArticlesByMpId(articles, task[p].mpId) = 45
    /\ task[p].page = 3

\* The deep-history run p is inside its page loop.
InPageLoop(p) ==
  /\ task[p].op = "history"
  /\ task[p].pc \in {"accounts", "fetch", "upsert", "updFeed", "sleep"}

\* C32 as stated: when a deep-history run ends while another run, inside its
\* page loop, owns the marker, the marker still names that run's feed after
\* the exit.
C32_CleanupKeepsOwnersMarker ==
  [][\A p, q \in Procs :
       (/\ p # q
        /\ task[p].op = "history" /\ task'[p].op # "history"
        /\ InPageLoop(q) /\ task[q].mpId # task[p].mpId
        /\ inProgressHistoryMp.id = task[q].mpId)
       => inProgressHistoryMp'.id = task[q].mpId]_vars

\* C33 as stated: the page a deep-history run asks for after its sleep is
\* the one after the page it asked for before.
C33_ConsecutivePages ==
  [][\A p \in Procs :
       (/\ task[p].op = "history" /\ task[p].pc = "sleep"
        /\ task'[p].pc = "accounts")
       => task'[p].page = task[p].page + 1]_vars

\* C34 as stated: the first page a deep-history run asks for is at least 1.
C34_FirstPageAtLeastOne ==
  [][\A p \in Procs : FirstPageRequested(p) => task'[p].page >= 1]_vars

NextMarker ==
  \/ NextHist
  \/ \E p \in Procs : FetchErr(p, ServerError)

InitMarker ==
  /\ InitProcess
  /\ accounts = [id \in AccountIds |->
                   AccountRow(IF id = 1 THEN ENABLE ELSE DISABLE)]
  /\ feeds = [f \in FeedIds |-> FeedRow(1)]
  /\ articles = UNION {StoredArticles(f, 1, defaultCount) : f \in FeedIds}
  /\ lastUpsert = articles

SpecMarker == InitMarker /\ [][NextMarker]_vars

\* The deep-history runs that are executing.
HistoryRuns == {p \in Procs : task[p].op = "history"}

\* C25: whenever no deep-history sync is executing the marker is idle (empty
\* feed id, page 1); and every run that went past the guard ends with the
\* marker reset to idle, whether it ended at its loop test (normally or
\* preempted), at one of its early returns, or by a thrown error.
C25_MarkerIdleWhenNoRun ==
  /\ [](HistoryRuns = {} => inProgressHistoryMp = IdleMarker)
  /\ [][\A p \in Procs :
          (p \in HistoryRuns /\ p \notin HistoryRuns')
          => inProgressHistoryMp' = IdleMarker]_vars

\* A run that owned the marker has just ended by a thrown error, and no run
\* is executing.
C25_Witness ==
  /\ HistoryRuns = {}
  /\ lastExit.op = "history" /\ lastExit.res = "error"
  /\ lastExit.err = ServerError
  /\ inProgressHistoryMp = IdleMarker

(***************************************************************************)
(* SpecDeep: deep-history syncs, one at a time, against an upstream whose  *)
(* feeds never end: whatever the page asked for, it answers with the first *)
(* k articles of the feed (k = 20 as long as it likes), or fails.  Feed 1  *)
(* has history and its first page stored; feed 2 is missing or has none.   *)
(* One credential is usable.                                               *)
(***************************************************************************)
FetchAnyPage(p, k) == Fetched(p, PageArticles(task[p].mpId, 1, k))

\* A deep-history sync is called while none is executing.
StartHistoryAlone(p, f) ==
  /\ callsLeft > MaxCalls - MaxDeepRuns
  /\ \A q \in Procs : task[q].op # "history"
  /\ StartHistory(p, f)

InitDeep ==
  /\ InitProcess
  /\ accounts = [id \in AccountIds |->
                   AccountRow(IF id = 1 THEN ENABLE ELSE DISABLE)]
  /\ \E other \in {NoFeed, FeedRow(0)} :
       feeds = [f \in FeedIds |-> IF f = 1 THEN FeedRow(1) ELSE other]
  /\ articles = StoredArticles(1, 1, defaultCount)
  /\ lastUpsert = articles

NextDeep ==
  \/ \E p \in Procs : \E f \in FeedIds : StartHistoryAlone(p, f)
  \/ \E p \in Procs : GetFeedDone(p)
  \/ \E p \in Procs : CountDone(p)
  \/ \E p \in Procs : AccountsDone(p)
  \/ \E p \in Procs : \E k \in PageLens : FetchAnyPage(p, k)
  \/ \E p \in Procs : FetchErr(p, ServerError)
  \/ \E p \in Procs : UpsertDone(p)
  \/ \E p \in Procs : UpdFeedDone(p)
  \/ \E p \in Procs : SleepDone(p)

SpecDeep == InitDeep /\ [][NextDeep]_vars

\* Every await of a run resolves: the database answers, the upstream request
\* answers or is aborted by its timeout, the sleep ends.
SpecDeepFair == SpecDeep /\ WF_vars(NextDeep)

\* The pages the run of invocation p has asked for so far.
PagesFetched(p) ==
  IF task[p].pc \in {"getFeed", "count"} THEN 0 ELSE historyLoopCap - task[p].i

\* C24: every deep-history run ends.  It asks for no page when the feed is
\* missing or has has_history = 0 when the run reads it; it ends when a page
\* it fetched gave hasHistory = 0; and it asks for at most historyLoopCap =
\* 1000 pages: after the 1000th the loop test fails and the run ends.
C24_DeepHistoryTerminates ==
  /\ \A p \in Procs : (task[p].op = "history") ~> (task[p].op # "history")
  /\ [](\A p \in Procs :
          task[p].op = "history" => PagesFetched(p) \in 0..historyLoopCap)
  /\ [][\A p \in Procs :
          (task[p].op = "history" /\ task'[p] # task[p])
          => LET t == task[p]
                 feed == feeds[t.mpId]
                 ends == /\ task'[p] = IdleTask
                         /\ lastExit'.p = p /\ lastExit'.res = "ok"
             IN  /\ (t.pc = "getFeed" /\ (~feed.exists \/ feed.hasHistory = 0))
                      => ends
                 /\ (t.pc = "updFeed" /\ t.hasHistory = 0) => ends
                 /\ (t.pc = "sleep" /\ PagesFetched(p) = historyLoopCap)
                      => ends]_vars

\* The 1000th page of a run is asked for, the 999 before it having been
\* full.
C24_Witness ==
  \E p \in Procs :
    /\ task[p].op = "history" /\ task[p].pc = "fetch"
    /\ PagesFetched(p) = historyLoopCap
    /\ inProgressHistoryMp.id = task[p].mpId

(***************************************************************************)
(* SpecSync: single-feed syncs of page 1 with pages of any length, with    *)
(* transient upstream failures, while the clock advances.                  *)
(***************************************************************************)
InitSync ==
  /\ InitProcess
  /\ accounts = [id \in AccountIds |-> AccountRow(ENABLE)]
  /\ feeds = [f \in FeedIds |-> FeedRow(IF f = 1 THEN 0 ELSE 1)]
  /\ articles = {}
  /\ lastUpsert = {}

NextSync ==
  \/ \E p \in Procs : \E f \in FeedIds : StartRefresh(p, f)
  \/ \E p \in Procs : AccountsDone(p)
  \/ \E p \in Procs : \E k \in PageLens : FetchOk(p, k)
  \/ \E p \in Procs : FetchErr(p, ServerError)
  \/ \E p \in Procs : UpsertDone(p)
  \/ \E p \in Procs : UpdFeedDone(p)
  \/ Tick

SpecSync == InitSync /\ [][NextSync]_vars

\* C8 as stated: no step of a sync takes a feed's has_history from 0 to 1.
C8_HasHistoryStaysZero ==
  [][\A f \in FeedIds :
       (feeds[f].exists /\ feeds[f].hasHistory = 0) =>
          feeds'[f].hasHistory = 0]_vars

\* The rows of the articles arts, tagged with the feed mpId.
TaggedRows(mpId, arts) ==
  {[id |-> arts[j].id, mpId |-> mpId, title |-> arts[j].title,
    picUrl |-> arts[j].picUrl, publishTime |-> arts[j].publishTime] :
     j \in DOMAIN arts}

\* C9: a single-feed sync whose fetch returned k articles writes no article
\* when k = 0 and otherwise upserts exactly the k articles, tagged with the
\* feed; it reads the clock when it issues the feed update; and it ends ok,
\* returning hasHistory = 0 if k < 20 and 1 otherwise, the feed row holding
\* that hasHistory and the time read.
C9_SingleFeedSync ==
  [][\A p \in Procs :
       (task[p].op = "refresh" /\ task'[p] # task[p]) =>
         LET f == task[p].mpId
             k == Len(task[p].arts)
         IN
         /\ (task[p].pc = "fetch" /\ task'[p].pc = "updFeed") =>
              /\ Len(task'[p].arts) = 0
              /\ articles' = articles
              /\ task'[p].syncTime = now
         /\ (task[p].pc = "fetch" /\ task'[p].pc = "upsert") =>
              /\ Len(task'[p].arts) > 0
              /\ articles' = articles
         /\ task[p].pc = "upsert" =>
              /\ task'[p].pc = "updFeed"
              /\ task'[p].arts = task[p].arts
              /\ task'[p].syncTime = now
              /\ Cardinality(TaggedRows(f, task[p].arts)) = k
              /\ TaggedRows(f, task[p].arts) \subseteq articles'
              /\ articles' \ TaggedRows(f, task[p].arts) =
                   {r \in articles :
                      \A j \in DOMAIN task[p].arts : task[p].arts[j].id # r.id}
         /\ task[p].pc = "updFeed" =>
              LET h == IF k < 20 THEN 0 ELSE 1 IN
              /\ articles' = articles
              /\ lastExit' = [p |-> p, op |-> "refresh", res |-> "ok",
                              err |-> NoError, value |-> {h}]
              /\ feeds[f].exists =>
                   /\ feeds'[f].hasHistory = h
                   /\ feeds'[f].syncTime = task[p].syncTime]_vars

\* A single-feed sync has just returned hasHistory = 0 for a page of 19
\* articles; the feed holds the 19 rows, has_history 0 and the later time.
C9_Witness ==
  /\ lastExit.op = "refresh" /\ lastExit.res = "ok" /\ lastExit.value = {0}
  /\ \E f \in FeedIds :
       /\ feeds[f].hasHistory = 0 /\ feeds[f].syncTime = MaxTime
       /\ countArticlesByMpId(articles, f) = defaultCount - 1

\* Invocation p is inside refreshMpArticlesAndUpdateFeed for its feed.
InSync(p) ==
  task[p].pc \in {"accounts", "fetch", "updAccount", "upsert", "updFeed"}
  /\ task[p].op # "mpinfo"

\* C23: at no time are two syncs of one feed id in flight.
C23_NoDuplicateSync ==
  \A p, q \in Procs :
    (p # q /\ InSync(p) /\ InSync(q)) => task[p].mpId # task[q].mpId

(***************************************************************************)
(* SpecUpsert: syncs whose pages are arbitrary small batches (an id may    *)
(* come twice in a batch, in batches of two feeds, with changed contents)  *)
(* and the article.add procedure of the router.                            *)
(***************************************************************************)
Summaries ==
  {[id |-> i, title |-> v, picUrl |-> v, publishTime |-> v] :
     i \in 1..MaxArticleId, v \in 0..MaxVersion}

Batches == UNION {[1..n -> Summaries] : n \in 1..MaxBatch}

\* The upstream answered the page request of invocation p with a batch.
FetchBatch(p) == \E arts \in Batches : Fetched(p, arts)

\* article.add: the INSERT ... ON CONFLICT(id) DO UPDATE of the router.
ArticleAdd(mpId, article) ==
  /\ articles' = insertArticle(articles, ArticleRow(mpId, article))
  /\ lastUpsert' = RecordUpsert(lastUpsert, mpId, <<article>>)
  /\ Admin
  /\ UNCHANGED <<now, accounts, feeds, blockedAccountsMap, inProgressHistoryMp,
                 isRefreshAllMpArticlesRunning, task, rateLimited>>

InitUpsert ==
  /\ InitProcess
  /\ accounts = [id \in AccountIds |-> AccountRow(ENABLE)]
  /\ feeds = [f \in FeedIds |-> FeedRow(1)]
  /\ articles = {}
  /\ lastUpsert = {}

NextUpsert ==
  \/ \E p \in Procs : \E f \in FeedIds : StartRefresh(p, f)
  \/ \E p \in Procs : AccountsDone(p)
  \/ \E p \in Procs : FetchBatch(p)
  \/ \E p \in Procs : UpsertDone(p)
  \/ \E p \in Procs : UpdFeedDone(p)
  \/ \E f \in FeedIds : \E article \in Summaries : ArticleAdd(f, article)

SpecUpsert == InitUpsert /\ [][NextUpsert]_vars

\* C10: after any sequence of upserts the store holds at most one row per
\* article id, and the rows are those of the latest upsert of each id: its
\* title, image, publish time and owning feed.
C10_UpsertIdempotent ==
  /\ \A r1, r2 \in articles : r1.id = r2.id => r1 = r2
  /\ articles = lastUpsert

\* Two syncs have upserted batches that carry one id with different titles,
\* and the store holds one row of that id.
C10_Witness ==
  \E p, q \in Procs :
    /\ p # q
    /\ task[p].pc = "updFeed" /\ task[q].pc = "updFeed"
    /\ \E i \in DOMAIN task[p].arts : \E j \in DOMAIN task[q].arts :
         /\ task[p].arts[i].id = task[q].arts[j].id
         /\ task[p].arts[i].title # task[q].arts[j].title
         /\ Cardinality({r \in articles : r.id = task[p].arts[i].id}) = 1

(***************************************************************************)
(* SpecReauth: re-authentication attempts for the stored credentials,      *)
(* with the operator scanning the code under any account, the account     *)
(* administration and the passing of days.  Both credentials were         *)
(* rate-limited earlier today, credential 1 twice.                         *)
(***************************************************************************)
Usernames == {0, 1}
StoredName == 2

EarlierSignals == <<1, 2, 1>>

InitReauth ==
  /\ now = 0
  /\ blockedAccountsMap =
       [d \in Days |-> IF d = 0 THEN EarlierSignals ELSE <<>>]
  /\ rateLimited = ToSet(EarlierSignals)
  /\ inProgressHistoryMp = IdleMarker
  /\ isRefreshAllMpArticlesRunning = FALSE
  /\ task = [p \in Procs |-> IdleTask]
  /\ lastExit = NoExit
  /\ adminLeft = MaxAdminOps
  /\ callsLeft = MaxCalls
  /\ preempted = {}
  /\ accounts =
       [id \in AccountIds |->
          [AccountRow(INVALID) EXCEPT !.name = StoredName]]
  /\ feeds = [f \in FeedIds |-> NoFeed]
  /\ articles = {}
  /\ lastUpsert = {}

NextReauth ==
  \/ \E p \in Procs : \E id \in AccountIds : StartReauth(p, id)
  \/ \E p \in Procs : \E vid \in AccountIds : \E username \in Usernames :
       Scan(p, vid, username)
  \/ \E p \in Procs : PollDone(p)
  \/ \E p \in Procs : PollFails(p, ServerError)
  \/ \E p \in Procs : ReauthSleepDone(p)
  \/ \E p \in Procs : ReauthUpdated(p)
  \/ \E p \in Procs : ReauthSelected(p)
  \/ \E id \in AccountIds : \E status \in Statuses : AccountAdd(id, status)
  \/ \E id \in AccountIds : \E status \in Statuses :
       AccountEdit(id, [status |-> status])
  \/ \E id \in AccountIds : AccountDelete(id)
  \/ Tick

SpecReauth == InitReauth /\ [][NextReauth]_vars

(***************************************************************************)
(* Claims on the re-authentication poll loop (SpecReauth).                 *)
(***************************************************************************)
\* Attempt p takes a step of its own.
ReauthStep(p, pc) ==
  task[p].op = "reauth" /\ task[p].pc = pc /\ task'[p] # task[p]

\* The session polled by attempt p carries an identity and a token.
SessionResolved(p) == task[p].vid # 0 /\ task[p].token # 0

\* The poll of attempt p answers in this step (it did not throw).
PollAnswers(p) == ReauthStep(p, "poll") /\ lastExit'.res # "caught"

\* C11: when a poll of the attempt for credential C answers with an identity
\* and a token and the identity is C's id, after any number of polls that
\* answered without them, the attempt goes on to update C: the UPDATE
\* replaces the token of C's row by the session's token, sets its status to
\* valid and its name to the session's username (the stored name when the
\* session has none); once the update has returned C is removed from today's
\* blocklist, every occurrence of it, and the attempt ends.
C11_MatchInstallsToken ==
  [][\A p \in Procs :
       LET t == task[p]
           C == t.acct
       IN  /\ PollAnswers(p) /\ SessionResolved(p) /\ t.vid = C
                => task'[p].pc = "reauthUpd"
           /\ ReauthStep(p, "reauthUpd")
                => /\ task'[p].pc = "reauthGet"
                   /\ accounts[C].exists
                        => /\ accounts'[C].token = t.token
                           /\ accounts'[C].status = ENABLE
                           /\ accounts'[C].name =
                                IF t.username # 0 THEN t.username
                                                  ELSE t.name
           /\ ReauthStep(p, "reauthGet")
                => /\ C \notin ToSet(BlockedToday(blockedAccountsMap'))
                   /\ lastExit'.res = "refreshed"
                   /\ task'[p] = IdleTask]_vars

\* Credential 1, rate-limited twice today, was recovered by the sixth poll
\* of its attempt: its row holds the new token and is valid, and today's
\* blocklist holds the other credential alone.
C11_Witness ==
  /\ lastExit.res = "refreshed"
  /\ lastExit.value = {5}
  /\ accounts[1].exists /\ accounts[1].token = 1
  /\ accounts[1].status = ENABLE /\ accounts[1].name = 1
  /\ BlockedToday(blockedAccountsMap) = <<2>>

\* C12: when a poll of the attempt for credential C answers with an identity
\* and a token and the identity is not C's id, the attempt ends at once, and
\* no step of such an attempt changes a credential row or the blocklist: C's
\* token, name, status and blocklist membership are as the other procedures
\* left them.
C12_MismatchLeavesCredential ==
  /\ [](\A p \in Procs :
          task[p].pc \in {"reauthUpd", "reauthGet"} => task[p].vid = task[p].acct)
  /\ [][\A p \in Procs :
          /\ PollAnswers(p) /\ SessionResolved(p) /\ task[p].vid # task[p].acct
               => /\ task'[p] = IdleTask
                  /\ lastExit'.res = "mismatch"
                  /\ lastExit'.p = p
          /\ (\E pc \in {"poll", "reauthSleep"} : ReauthStep(p, pc))
               => /\ accounts' = accounts
                  /\ blockedAccountsMap' = blockedAccountsMap]_vars

\* The attempt for the still invalid and blocked credential 1 ended on a
\* session of credential 2, after five polls that answered without a session.
C12_Witness ==
  /\ lastExit.res = "mismatch"
  /\ lastExit.value = {5}
  /\ accounts[1].exists /\ accounts[1].status = INVALID
  /\ accounts[1].token = 0 /\ accounts[1].name = StoredName
  /\ BlockedToday(blockedAccountsMap) = EarlierSignals
  /\ callsLeft = MaxCalls - 1

\* Credential id is written by account.add or account.edit in this step, or
\* a re-authentication attempt for it completes after a matching session.
Revalidated(id) ==
  \/ \E status \in Statuses : AccountAdd(id, status)
  \/ \E status \in Statuses : AccountEdit(id, [status |-> status])
  \/ \E p \in Procs : ReauthStep(p, "reauthGet") /\ task[p].acct = id

\* C17: when credential X has been re-validated (account.add or account.edit
\* of X, or a re-authentication of X that found a matching session), X is
\* not in today's blocklist, however many times it was put there today.
C17_RevalidatedNotBlocked ==
  [][\A id \in AccountIds :
       Revalidated(id) => id \notin ToSet(BlockedToday(blockedAccountsMap'))]_vars

\* Credential 1, rate-limited twice today, was set valid by the administrator
\* (no re-authentication was started): the blocklist holds credential 2 alone.
C17_Witness ==
  /\ adminLeft = MaxAdminOps - 1 /\ callsLeft = MaxCalls /\ now = 0
  /\ accounts[1].exists /\ accounts[1].status = ENABLE
  /\ BlockedToday(blockedAccountsMap) = <<2>>

(***************************************************************************)
(* SpecMissing: single-feed syncs requested for a stored feed and for a    *)
(* feed id that the feed store does not hold.                              *)
(***************************************************************************)
InitMissing ==
  /\ InitProcess
  /\ accounts = [id \in AccountIds |-> AccountRow(ENABLE)]
  /\ feeds = [f \in FeedIds |-> IF f = 1 THEN FeedRow(0) ELSE NoFeed]
  /\ articles = {}
  /\ lastUpsert = {}

SpecMissing == InitMissing /\ [][NextSync]_vars

\* C19: a single-feed sync requested for a feed id that the feed store does
\* not hold ends with the outcome FeedNotFound, and no article is stored
\* under that id.
C19_MissingFeedNotFound ==
  /\ [](\A r \in articles : feeds[r.mpId].exists)
  /\ [][\A p \in Procs :
          /\ task[p].op = "refresh" /\ ~feeds[task[p].mpId].exists
          /\ lastExit'.p = p
          => lastExit'.res = "FeedNotFound"]_vars

(***************************************************************************)
(* SpecPoll: re-authentication attempts alone, one after the other.  A     *)
(* poll answers without result, answers with the session the operator has  *)
(* scanned, fails with an error response, or is aborted by the timeout of  *)
(* fetchJson.                                                              *)
(***************************************************************************)
\* A step of the attempt p itself: an await of it resolves.
AttemptStep(p) ==
  \/ PollDone(p)
  \/ PollFails(p, ServerError)
  \/ PollFails(p, NetworkError)
  \/ ReauthSleepDone(p)
  \/ ReauthUpdated(p)
  \/ ReauthSelected(p)

NextPoll ==
  \/ \E p \in Procs : \E id \in AccountIds : StartReauth(p, id)
  \/ \E p \in Procs : \E vid \in AccountIds : \E username \in Usernames :
       Scan(p, vid, username)
  \/ \E p \in Procs : PollDone(p)
  \/ \E p \in Procs : PollFails(p, ServerError)
  \/ \E p \in Procs : PollFails(p, NetworkError)
  \/ \E p \in Procs : ReauthSleepDone(p)
  \/ \E p \in Procs : ReauthUpdated(p)
  \/ \E p \in Procs : ReauthSelected(p)

SpecPoll == InitReauth /\ [][NextPoll]_vars

\* Every await of an attempt resolves: the poll answers, fails or is aborted
\* by its timeout, the sleep ends, the database answers.
SpecPollFair == SpecPoll /\ WF_vars(\E p \in Procs : AttemptStep(p))

\* The polls the attempt p has issued so far.
PollsIssued(p) == task[p].i + 1

\* C26: an attempt issues at most maxAttempts = 60 polls; when the 60th has
\* answered without an identity and a token the attempt ends after its
\* sleep, the credential rows and the blocklist being as they were; a
\* credential row changes only in the update of an attempt whose poll
\* returned an identity and a token; and every attempt ends.
C26_AtMostSixtyPolls ==
  /\ \A p \in Procs : (task[p].op = "reauth") ~> (task[p].op # "reauth")
  /\ [](\A p \in Procs :
          task[p].op = "reauth" => PollsIssued(p) \in 1..maxAttempts)
  /\ [][/\ \A p \in Procs :
            (/\ ReauthStep(p, "reauthSleep") /\ task'[p].pc # "reauthSleep"
             /\ PollsIssued(p) = maxAttempts)
            => /\ task'[p] = IdleTask
               /\ lastExit'.p = p /\ lastExit'.res = "exhausted"
               /\ accounts' = accounts
               /\ blockedAccountsMap' = blockedAccountsMap
        /\ accounts' # accounts
            => \E p \in Procs :
                 ReauthStep(p, "reauthUpd") /\ SessionResolved(p)]_vars

\* An attempt has ended after 60 polls without result: no credential row
\* has changed.
C26_Witness ==
  /\ lastExit.op = "reauth" /\ lastExit.res = "exhausted"
  /\ \A p \in Procs : task[p].op # "reauth"
  /\ \A id \in AccountIds :
       accounts[id] = [AccountRow(INVALID) EXCEPT !.name = StoredName]

\* C27 as stated: a poll that times out does not end the attempt, that is,
\* no attempt has ended on the abort of a poll.
C27_TimeoutKeepsPolling ==
  lastExit.op = "reauth" => lastExit.err # NetworkError

(***************************************************************************)
(* SpecMonitor: one cycle of the credential health monitor, of either      *)
(* variant, over credentials that are invalid or valid, with probes of     *)
(* every outcome and with requests of the re-authentication flow that      *)
(* fail.                                                                   *)
(***************************************************************************)
ProbeErrors ==
  {Unauthorized, Unmarked401, NotFound, RateLimited, NetworkError, ServerError}

InitMonitor ==
  /\ InitProcess
  /\ \E st \in [AccountIds -> {INVALID, ENABLE}] :
       accounts = [id \in AccountIds |->
                     [AccountRow(st[id]) EXCEPT !.name = StoredName]]
  /\ \E other \in {NoFeed, FeedRow(1)} :
       feeds = [f \in FeedIds |-> IF f = 1 THEN other ELSE NoFeed]
  /\ articles = {}
  /\ lastUpsert = {}

NextMonitor ==
  \/ \E p \in Procs : \E op \in MonitorOps : StartMonitor(p, op)
  \/ \E p \in Procs : ListAccountsDone(p)
  \/ \E p \in Procs : ProbeFeedsDone(p)
  \/ \E p \in Procs : Probed(p, NoError)
  \/ \E p \in Procs : \E e \in ProbeErrors : Probed(p, e)
  \/ \E p \in Procs : MarkValidDone(p)
  \/ \E p \in Procs : MarkInvalidDone(p)
  \/ \E p \in Procs : LoginUrlDone(p)
  \/ \E p \in Procs : LoginUrlFails(p, ServerError)
  \/ \E p \in Procs : \E status \in {200, 500} : NotifyDone(p, status)
  \/ \E p \in Procs : NotifyFails(p, NetworkError)
  \/ \E p \in Procs : \E vid \in AccountIds : \E username \in Usernames :
       Scan(p, vid, username)
  \/ \E p \in Procs : PollDone(p)
  \/ \E p \in Procs : PollFails(p, NetworkError)
  \/ \E p \in Procs : ReauthSleepDone(p)
  \/ \E p \in Procs : ReauthUpdated(p)
  \/ \E p \in Procs : ReauthSelected(p)
  \/ \E p \in Procs : MonitorSleepDone(p)

SpecMonitor == InitMonitor /\ [][NextMonitor]_vars

\* The cycle p takes a step of its own at pc.
MonitorStep(p, pc) ==
  task[p].op \in MonitorOps /\ task[p].pc = pc /\ task'[p] # task[p]

\* The steps of the re-authentication flow within a cycle.
ReauthFlowPcs == {"loginUrl", "poll", "reauthSleep", "reauthUpd", "reauthGet"}

\* C28 as stated: no step of the re-authentication flow of a credential (the
\* login-session request, a poll, its sleep, the update) ends the cycle: the
\* cycle goes on, to the sleep and the remaining credentials.
C28_ReauthFailuresSwallowed ==
  [][\A p \in Procs : \A pc \in ReauthFlowPcs :
       MonitorStep(p, pc) => task'[p].op = task[p].op]_vars

\* C29 as stated: whatever becomes of the notification POST, the cycle goes
\* on: to the first poll for that credential in the variant that polls, to
\* the sleep and the remaining credentials in the other.
C29_NotificationFailureIgnored ==
  [][\A p \in Procs :
       MonitorStep(p, "notify")
       => /\ task'[p].op = task[p].op
          /\ task'[p].pc = IF task[p].op = "recover" THEN "poll"
                                                     ELSE "monitorSleep"]_vars

\* The outcome e of a probe is explicitly Unauthorized.
ExplicitUnauthorized(e) == e.status = 401 \/ "WeReadError401" \in e.message

\* C30: a cycle treats a credential as invalid (marks it invalid, asks for a
\* login session, notifies, polls) only after a probe that failed with HTTP
\* 401 or with the marker WeReadError401 in its message; after any other
\* outcome (success, 404, 429, no response, 500) it goes on to the valid
\* path, and no credential's status becomes invalid but in the step that
\* marks a credential so probed.
C30_OnlyUnauthorizedIsInvalid ==
  /\ [](\A p \in Procs :
          (task[p].op \in MonitorOps
           /\ task[p].pc \in {"markInvalid", "notify"} \cup ReauthFlowPcs)
          => ExplicitUnauthorized(task[p].err))
  /\ [][/\ \A p \in Procs :
            (MonitorStep(p, "probe") /\ ~ExplicitUnauthorized(task'[p].err))
            => task'[p].pc = IF task[p].op = "recover" THEN "markValid"
                                                       ELSE "monitorSleep"
        /\ \A id \in AccountIds :
            (accounts'[id].status = INVALID /\ accounts[id].status # INVALID)
            => \E p \in Procs :
                 /\ MonitorStep(p, "markInvalid") /\ task[p].acct = id
                 /\ ExplicitUnauthorized(task[p].err)]_vars

\* A cycle over the enabled credentials has probed one with the answer 404
\* and sleeps before the next, the credential still valid.
C30_Witness ==
  \E p \in Procs :
    /\ task[p].op = "detect" /\ task[p].pc = "monitorSleep"
    /\ task[p].err = NotFound
    /\ accounts[task[p].acct].status = ENABLE
    /\ task[p].queue # <<>>

\* C31: a cycle asks for the login session of a credential only in the step
\* in which its own update of that credential's status to invalid has
\* returned, the status invalid as that step ends, and it sends the
\* notification only after the login session was answered; and no outcome of
\* the login-session request or of the notification, a failure included,
\* writes to any credential: the failure leaves the status as it was set.
C31_InvalidBeforeLoginSession ==
  [][\A p \in Procs :
       /\ MonitorStep(p, "markInvalid")
          => /\ task'[p].pc = "loginUrl"
             /\ accounts'[task[p].acct].status = INVALID
       /\ (task'[p].op \in MonitorOps /\ task'[p].pc = "loginUrl"
           /\ task[p].pc # "loginUrl")
          => task[p].pc = "markInvalid"
       /\ (task'[p].op \in MonitorOps /\ task'[p].pc = "notify"
           /\ task[p].pc # "notify")
          => task[p].pc = "loginUrl"
       /\ \A pc \in {"loginUrl", "notify"} :
            MonitorStep(p, pc) => accounts' = accounts]_vars

\* The notification of a credential that was valid when the cycle listed it
\* has failed: the cycle has ended with the error, the credential invalid.
C31_Witness ==
  /\ lastExit.op = "detect" /\ lastExit.res = "error"
  /\ lastExit.err = NetworkError
  /\ \E id \in AccountIds : accounts[id].status = INVALID
  /\ \E id \in AccountIds : accounts[id].status = ENABLE

\* C36 as stated: a step that is not one of the account administration
\* leaves a disabled credential disabled.
C36_DisabledStaysDisabled ==
  [][\A id \in AccountIds :
       (/\ accounts[id].exists /\ accounts[id].status = DISABLE
        /\ adminLeft' = adminLeft)
       => accounts'[id].status = DISABLE]_vars

\* C37 as stated: in a cycle over the invalid credentials a status goes
\* from invalid to valid only in the update that follows a probe the
\* upstream answered successfully, or in the update of a re-authentication
\* whose session carries the credential's identity and a token.
C37_ValidOnlyAfterSuccess ==
  [][\A id \in AccountIds :
       (accounts[id].status = INVALID /\ accounts'[id].status = ENABLE)
       => \E p \in Procs :
            /\ task[p].op = "recover" /\ task[p].acct = id
            /\ \/ task[p].pc = "markValid" /\ task[p].err = NoError
               \/ /\ task[p].pc = "reauthUpd"
                  /\ SessionResolved(p) /\ task[p].vid = id]_vars

\* C38: a single-feed sync writes the feed row and the articles only after
\* a page request that succeeded, and from then on it ends without error;
\* up to there (selection, request, handling of a failed request) no step
\* of it changes a feed row or an article, and it is only there that it ends
\* with an error.  So a sync that fails has changed neither sync_time nor
\* has_history nor the articles.
C38_FailedSyncWritesNothing ==
  [][\A p \in Procs :
       LET t == task[p] IN
       (/\ t.op = "refresh" \/ task'[p].op = "refresh"
        /\ task'[p] # t)
       => /\ t.pc \in {"idle", "accounts", "fetch", "updAccount"}
               => feeds' = feeds /\ articles' = articles
          /\ (task'[p].pc \in {"upsert", "updFeed"}
                 /\ t.pc \notin {"upsert", "updFeed"})
               => t.pc = "fetch" /\ task'[p].err = NoError
          /\ t.pc \in {"upsert", "updFeed"}
               => \/ task'[p].pc = "updFeed"
                  \/ task'[p] = IdleTask /\ lastExit'.res = "ok"
          /\ (lastExit'.p = p /\ lastExit'.res = "error")
               => t.pc \in {"accounts", "fetch", "updAccount"}]_vars

\* A single-feed sync has ended for want of a credential, after it marked
\* one invalid.
C38_Witness ==
  /\ lastExit.op = "refresh" /\ lastExit.res = "error"
  /\ lastExit.err = NoCredentialAvailable
  /\ \E id \in AccountIds :
       accounts[id].exists /\ accounts[id].status = INVALID

(***************************************************************************)
(* SpecList: a client walks account.list with a limit, passing each        *)
(* nextCursor to the next call, over a store that does not change.         *)
(***************************************************************************)
RECURSIVE OrderByCreatedAtId(_, _)
\* ORDER BY created_at ASC, id ASC of the rows ids
OrderByCreatedAtId(rows, ids) ==
  IF ids = {} THEN <<>>
  ELSE LET first == CHOOSE x \in ids :
                      \A y \in ids :
                        \/ rows[x].createdAt < rows[y].createdAt
                        \/ rows[x].createdAt = rows[y].createdAt /\ x <= y
       IN  <<first>> \o OrderByCreatedAtId(rows, ids \ {first})

\* listAccounts(db, limit, cursor): the page {items, nextCursor}, 0 standing
\* for an absent cursor.
listAccounts(rows, limit, cursor) ==
  LET stored == {id \in DOMAIN rows : rows[id].exists}
      where == IF cursor # 0 /\ cursor \in stored
               THEN {id \in stored :
                       \/ rows[id].createdAt > rows[cursor].createdAt
                       \/ /\ rows[id].createdAt = rows[cursor].createdAt
                          /\ id > cursor}
               ELSE stored
      ordered == OrderByCreatedAtId(rows, where)
      results == IF Len(ordered) > limit + 1
                 THEN SubSeq(ordered, 1, limit + 1) ELSE ordered
  IN  IF Len(results) > limit
      THEN [items |-> SubSeq(results, 1, limit), nextCursor |-> results[limit + 1]]
      ELSE [items |-> results, nextCursor |-> 0]

\* The client calls account.list with the limit and no cursor.
StartList(p, limit) ==
  /\ Idle(p)
  /\ Goes(p, [IdleTask EXCEPT !.op = "list", !.pc = "listPage", !.i = limit])
  /\ UNCHANGED <<inProgressHistoryMp, isRefreshAllMpArticlesRunning>>
  /\ UNCHANGED Others

\* The call answered: the client keeps the items and calls again with the
\* nextCursor, or ends the walk with the rows it got when there is none.
ListPageDone(p) ==
  LET t == task[p]
      page == listAccounts(accounts, t.i, t.acct)
      got == t.queue \o page.items
  IN
  /\ t.pc = "listPage"
  /\ IF page.nextCursor # 0
     THEN /\ Goes(p, [t EXCEPT !.queue = got, !.acct = page.nextCursor])
          /\ UNCHANGED <<inProgressHistoryMp, isRefreshAllMpArticlesRunning>>
     ELSE ExitValue(p, t, "ok", NoError, {got})
  /\ UNCHANGED Others

InitList ==
  /\ InitProcess
  /\ \E exists \in [1..MaxRows -> BOOLEAN] :
     \E createdAt \in [1..MaxRows -> 0..1] :
       accounts = [id \in 1..MaxRows |->
                     IF exists[id]
                     THEN [AccountRow(ENABLE) EXCEPT !.createdAt = createdAt[id]]
                     ELSE NoAccount]
  /\ feeds = [f \in FeedIds |-> NoFeed]
  /\ articles = {}
  /\ lastUpsert = {}

NextList ==
  \/ \E p \in Procs : \E limit \in 1..MaxRows : StartList(p, limit)
  \/ \E p \in Procs : ListPageDone(p)

SpecList == InitList /\ [][NextList]_vars

\* C39 as stated: the rows a walk has yielded when it ends are the stored
\* rows, each once.
C39_WalkYieldsEveryRowOnce ==
  lastExit.op = "list"
  => \A got \in lastExit.value :
       /\ ToSet(got) = {id \in DOMAIN accounts : accounts[id].exists}
       /\ \A j, k \in DOMAIN got : got[j] = got[k] => j = k

(***************************************************************************)
(* SpecDispatch: the scheduled handler of the worker.  Each scheduled      *)
(* event carries its cron expression; the configured expressions are      *)
(* those of the environment the event is handled in.  The handlers it      *)
(* starts go on with probes and page requests that succeed.                *)
(***************************************************************************)
\* The default feed cron, the default account-check cron, and another one.
Crons == {"35 5,17 * * *", "0 2,14 * * *", "*/30 * * * *"}

\* scheduled(event, env, ctx) with event.cron = cron, feedCron and
\* accountCron being the configured expressions: each handler it passes to
\* ctx.waitUntil runs up to its first await.
scheduled(cron, feedCron, accountCron) ==
  LET check == [IdleTask EXCEPT !.op = "detect", !.pc = "listAccounts"]
      sweep == [IdleTask EXCEPT !.op = "cron", !.pc = "listFeeds"]
  IN
  /\ IF cron = accountCron
     THEN \E p \in Procs : Idle(p) /\ Goes(p, check)
     ELSE IF cron = feedCron
     THEN \E p \in Procs : Idle(p) /\ Goes(p, sweep)
     ELSE \E p, q \in Procs :
            /\ Idle(p) /\ callsLeft > 1
            /\ q > p /\ task[q].pc = "idle"
            /\ \A r \in Procs : (p < r /\ r < q) => task[r].pc # "idle"
            /\ task' = [task EXCEPT ![p] = check, ![q] = sweep]
            /\ lastExit' = NoExit
            /\ callsLeft' = callsLeft - 2
            /\ UNCHANGED <<preempted, adminLeft>>
  /\ UNCHANGED <<inProgressHistoryMp, isRefreshAllMpArticlesRunning>>
  /\ UNCHANGED Others

NextDispatch ==
  \/ \E cron, feedCron, accountCron \in Crons :
       scheduled(cron, feedCron, accountCron)
  \/ \E p \in Procs : ListAccountsDone(p)
  \/ \E p \in Procs : ProbeFeedsDone(p)
  \/ \E p \in Procs : Probed(p, NoError)
  \/ \E p \in Procs : MonitorSleepDone(p)
  \/ \E p \in Procs : ListFeedsDone(p)
  \/ \E p \in Procs : AccountsDone(p)
  \/ \E p \in Procs : FetchOk(p, 0)
  \/ \E p \in Procs : UpdFeedDone(p)
  \/ \E p \in Procs : SleepDone(p)
  \/ \E p \in Procs : PauseDone(p)

SpecDispatch == InitSweep /\ [][NextDispatch]_vars

\* The handlers that start in this step.
HandlersStarted ==
  {task'[p].op : p \in {p \in Procs : task[p].pc = "idle" /\ task'[p].pc # "idle"}}

\* C40 as stated: for every configuration, the handling of an event starts
\* the feed sweep when the event's cron is the configured feed cron, the
\* credential check when it is the configured account-check cron, and both
\* when it is neither.
C40_DispatchByCron ==
  [][\A cron, feedCron, accountCron \in Crons :
       scheduled(cron, feedCron, accountCron)
       => /\ cron = feedCron => "cron" \in HandlersStarted
          /\ cron = accountCron => "detect" \in HandlersStarted
          /\ cron \notin {feedCron, accountCron}
               => HandlersStarted = {"cron", "detect"}]_vars
====
